---- MODULE Spec2Model ----
(***************************************************************************)
(* Model of the transform engine of pictorial-rs                           *)
(* (src/pictorial-rs/src/core/transform/transform.rs).                     *)
(*                                                                         *)
(* Floating point values are modelled as exact rationals <<n, d>> in       *)
(* lowest terms with d > 0; the value NaN stands for the result of an      *)
(* arithmetic operation that is not a number (division of zero by zero).   *)
(* Angles are modelled in eighths of a turn.                               *)
(***************************************************************************)
EXTENDS Integers, Sequences, FiniteSets, TLC

(***************************************************************************)
(* Bounds of the model.                                                    *)
(***************************************************************************)
MaxGuides == 1
MaxUpdates == 2
MaxMutations == 1

(***************************************************************************)
(* Exact arithmetic standing for f32.                                      *)
(***************************************************************************)
Abs(i) == IF i < 0 THEN -i ELSE i

Sign(i) == IF i < 0 THEN -1 ELSE IF i = 0 THEN 0 ELSE 1

RECURSIVE Gcd(_, _)
Gcd(a, b) == IF b = 0 THEN a ELSE Gcd(b, a % b)

NaN == <<0, 0>>

IsNaN(r) == r[2] = 0

Rat(n, d) ==
    IF d = 0 THEN NaN
    ELSE LET g == Gcd(Abs(n), Abs(d))
         IN  <<(Sign(d) * n) \div g, Abs(d) \div g>>

R(i) == <<i, 1>>

RAdd(p, q) == IF IsNaN(p) \/ IsNaN(q) THEN NaN
              ELSE Rat(p[1] * q[2] + q[1] * p[2], p[2] * q[2])

RSub(p, q) == IF IsNaN(p) \/ IsNaN(q) THEN NaN
              ELSE Rat(p[1] * q[2] - q[1] * p[2], p[2] * q[2])

RMul(p, q) == IF IsNaN(p) \/ IsNaN(q) THEN NaN
              ELSE Rat(p[1] * q[1], p[2] * q[2])

RDiv(p, q) == IF IsNaN(p) \/ IsNaN(q) THEN NaN
              ELSE Rat(p[1] * q[2], p[2] * q[1])

RAbs(p) == <<Abs(p[1]), p[2]>>

RLt(p, q) == p[1] * q[2] < q[1] * p[2]

RMaxOf(p, q) == IF RLt(p, q) THEN q ELSE p

RMinOf(p, q) == IF RLt(q, p) THEN q ELSE p

\* f32::round: the nearest integer, halves away from zero
RRound(p) ==
    IF IsNaN(p) THEN NaN
    ELSE R(Sign(p[1]) * ((2 * Abs(p[1]) + p[2]) \div (2 * p[2])))

(***************************************************************************)
(* crate::math: Point, Vector2, Bounds and Matrix3.  A Matrix3 is the      *)
(* affine map  x' = a*x + c*y + tx,  y' = b*x + d*y + ty.                  *)
(***************************************************************************)
Pt(x, y) == [x |-> x, y |-> y]

PtI(i, j) == Pt(R(i), R(j))

Bnd(minp, maxp) == [min |-> minp, max |-> maxp]

Mat(a, b, c, d, tx, ty) == [a |-> a, b |-> b, c |-> c, d |-> d, tx |-> tx, ty |-> ty]

MatIdentity == Mat(R(1), R(0), R(0), R(1), R(0), R(0))

MatTranslation(dx, dy) == Mat(R(1), R(0), R(0), R(1), dx, dy)

MatScale(sx, sy) == Mat(sx, R(0), R(0), sy, R(0), R(0))

\* cosine and sine of an angle given in eighths of a turn (quarter turns only)
CosE(e) == CASE e % 8 = 0 -> R(1) [] e % 8 = 4 -> R(-1) [] OTHER -> R(0)

SinE(e) == CASE e % 8 = 2 -> R(1) [] e % 8 = 6 -> R(-1) [] OTHER -> R(0)

MatRotation(e) == Mat(CosE(e), SinE(e), RSub(R(0), SinE(e)), CosE(e), R(0), R(0))

\* m * n: the map that applies n first and m second
MatMul(m, n) ==
    Mat(RAdd(RMul(m.a, n.a), RMul(m.c, n.b)),
        RAdd(RMul(m.b, n.a), RMul(m.d, n.b)),
        RAdd(RMul(m.a, n.c), RMul(m.c, n.d)),
        RAdd(RMul(m.b, n.c), RMul(m.d, n.d)),
        RAdd(RAdd(RMul(m.a, n.tx), RMul(m.c, n.ty)), m.tx),
        RAdd(RAdd(RMul(m.b, n.tx), RMul(m.d, n.ty)), m.ty))

MatGetTranslation(m) == Pt(m.tx, m.ty)

MatSetTranslation(m, v) == [m EXCEPT !.tx = v.x, !.ty = v.y]

MatApply(m, p) ==
    Pt(RAdd(RAdd(RMul(m.a, p.x), RMul(m.c, p.y)), m.tx),
       RAdd(RAdd(RMul(m.b, p.x), RMul(m.d, p.y)), m.ty))

\* the direction of the vector (x, y) is a whole number of eighths of a turn
DirRepresentable(y, x) == x[1] = 0 \/ y[1] = 0 \/ RAbs(x) = RAbs(y)

\* f32::atan2(y, x) in eighths of a turn, in (-4, 4]; exact for the
\* representable directions, the only ones the model evaluates it on
Atan2E(y, x) ==
    LET sx == Sign(x[1])
        sy == Sign(y[1])
    IN  CASE sy = 0 /\ sx >= 0 -> 0
          [] sy = 0 /\ sx < 0 -> 4
          [] sx = 0 -> 2 * sy
          [] OTHER -> IF sx > 0 THEN sy ELSE 3 * sy

(***************************************************************************)
(* Enumerations (transform.rs).                                            *)
(***************************************************************************)
HandleType == {"TopLeft", "TopCenter", "TopRight", "MiddleLeft", "MiddleRight",
               "BottomLeft", "BottomCenter", "BottomRight", "Rotation", "Center"}

ConstraintType == {"SnapToGrid", "SnapToObject", "MaintainAspectRatio",
                   "LockRotation", "LockScale"}

Orientation == {"Horizontal", "Vertical"}

\* Option<T>: None is the empty sequence, Some(v) a sequence of one value
None == <<>>

Some(v) == <<v>>

\* a map without keys
EmptyMap == [k \in {} |-> k]

(***************************************************************************)
(* Return values.  tag is "Ok" or "Err" for a Result, "Some" or "None" for *)
(* an Option of a transform map, "Unit" for no value, "Id" for a guide id. *)
(***************************************************************************)
Ret(tag, err, map, id) == [tag |-> tag, err |-> err, map |-> map, id |-> id]

RetOk == Ret("Ok", "", EmptyMap, 0)

RetErr(e) == Ret("Err", e, EmptyMap, 0)

RetSome(m) == Ret("Some", "", m, 0)

RetNone == Ret("None", "", EmptyMap, 0)

RetUnit == Ret("Unit", "", EmptyMap, 0)

RetId(i) == Ret("Id", "", EmptyMap, i)

Res(self, ret) == [self |-> self, ret |-> ret]

SeqRange(q) == {q[i] : i \in 1..Len(q)}

(***************************************************************************)
(* TransformEngine (transform.rs).  self is the record of the fields       *)
(* grid_size, snap_threshold, constraints, active_guides and               *)
(* current_transform.                                                      *)
(***************************************************************************)
Constraint(t, e) == [constraint_type |-> t, enabled |-> e]

TransformEngineNew ==
    [grid_size |-> R(10),
     snap_threshold |-> R(5),
     constraints |-> [t \in {"SnapToGrid", "MaintainAspectRatio", "LockRotation", "LockScale"}
                         |-> Constraint(t, FALSE)],
     active_guides |-> <<>>,
     current_transform |-> None]

is_constraint_enabled(self, constraint_type) ==
    IF constraint_type \in DOMAIN self.constraints
    THEN self.constraints[constraint_type].enabled
    ELSE FALSE

set_constraint(self, constraint_type, enabled) ==
    Res(IF constraint_type \in DOMAIN self.constraints
        THEN [self EXCEPT !.constraints[constraint_type].enabled = enabled]
        ELSE self,
        RetUnit)

is_transforming(self) == self.current_transform # None

\* the smallest and the largest of a non-empty set of numbers
RMinSet(S) == CHOOSE m \in S : \A o \in S : ~RLt(o, m)

RMaxSet(S) == CHOOSE m \in S : \A o \in S : ~RLt(m, o)

calculate_combined_bounds(element_bounds) ==
    IF DOMAIN element_bounds = {} THEN None
    ELSE LET bs == {element_bounds[id].bounds : id \in DOMAIN element_bounds}
         IN  Some(Bnd(Pt(RMinSet({b.min.x : b \in bs}), RMinSet({b.min.y : b \in bs})),
                      Pt(RMaxSet({b.max.x : b \in bs}), RMaxSet({b.max.y : b \in bs}))))

Half(p, q) == RDiv(RAdd(p, q), R(2))

\* the origin taken at the centre of bounds whatever the handle
OriginFor_center(handle_type, bounds) ==
    Pt(Half(bounds.min.x, bounds.max.x), Half(bounds.min.y, bounds.max.y))

\* the origin of a transform started with handle_type on bounds
OriginFor(handle_type, bounds) ==
    CASE handle_type = "TopLeft" -> Pt(bounds.max.x, bounds.max.y)
      [] handle_type = "TopRight" -> Pt(bounds.min.x, bounds.max.y)
      [] handle_type = "BottomLeft" -> Pt(bounds.max.x, bounds.min.y)
      [] handle_type = "BottomRight" -> Pt(bounds.min.x, bounds.min.y)
      [] handle_type = "TopCenter" -> Pt(Half(bounds.min.x, bounds.max.x), bounds.max.y)
      [] handle_type = "BottomCenter" -> Pt(Half(bounds.min.x, bounds.max.x), bounds.min.y)
      [] handle_type = "MiddleLeft" -> Pt(bounds.max.x, Half(bounds.min.y, bounds.max.y))
      [] handle_type = "MiddleRight" -> Pt(bounds.min.x, Half(bounds.min.y, bounds.max.y))
      [] OTHER -> Pt(Half(bounds.min.x, bounds.max.x), Half(bounds.min.y, bounds.max.y))

NewSession(element_ids, handle_type, start_point, element_bounds) ==
    LET origin ==
            IF Len(element_ids) = 1
            THEN IF element_ids[1] \in DOMAIN element_bounds
                 THEN OriginFor(handle_type, element_bounds[element_ids[1]].bounds)
                 ELSE start_point
            ELSE LET combined_bounds == calculate_combined_bounds(element_bounds)
                 IN  IF combined_bounds # None
                     THEN OriginFor(handle_type, combined_bounds[1])
                     ELSE start_point
    IN  [element_ids |-> element_ids,
         start_point |-> start_point,
         origin |-> origin,
         handle_type |-> handle_type,
         initial_states |-> [id \in DOMAIN element_bounds |->
                                [transform |-> element_bounds[id].transform,
                                 bounds |-> element_bounds[id].bounds]],
         current_transforms |-> [id \in DOMAIN element_bounds |->
                                    element_bounds[id].transform]]

\* start_transform without the check for a transform in progress
start_transform_replacing(self, element_ids, handle_type, start_point, element_bounds) ==
    IF element_ids = <<>>
    THEN Res(self, RetErr("InvalidParameters"))
    ELSE IF \E i \in 1..Len(element_ids) : element_ids[i] \notin DOMAIN element_bounds
    THEN Res(self, RetErr("UnknownElement"))
    ELSE Res([self EXCEPT !.current_transform =
                 Some(NewSession(element_ids, handle_type, start_point, element_bounds))],
             RetOk)

\* start_transform that stores the session before it looks for unknown elements
start_transform_storing_first(self, element_ids, handle_type, start_point, element_bounds) ==
    IF self.current_transform # None
    THEN Res(self, RetErr("AlreadyTransforming"))
    ELSE IF element_ids = <<>>
    THEN Res(self, RetErr("InvalidParameters"))
    ELSE IF \E i \in 1..Len(element_ids) : element_ids[i] \notin DOMAIN element_bounds
    THEN Res([self EXCEPT !.current_transform =
                 Some(NewSession(element_ids, handle_type, start_point, element_bounds))],
             RetErr("UnknownElement"))
    ELSE Res([self EXCEPT !.current_transform =
                 Some(NewSession(element_ids, handle_type, start_point, element_bounds))],
             RetOk)

start_transform(self, element_ids, handle_type, start_point, element_bounds) ==
    IF self.current_transform # None
    THEN Res(self, RetErr("AlreadyTransforming"))
    ELSE IF element_ids = <<>>
    THEN Res(self, RetErr("InvalidParameters"))
    ELSE IF \E i \in 1..Len(element_ids) : element_ids[i] \notin DOMAIN element_bounds
    THEN Res(self, RetErr("UnknownElement"))
    ELSE Res([self EXCEPT !.current_transform =
                 Some(NewSession(element_ids, handle_type, start_point, element_bounds))],
             RetOk)

Epsilon == Rat(1, 10000)

CornerOrEdge == {"TopLeft", "TopRight", "BottomLeft", "BottomRight",
                 "TopCenter", "BottomCenter", "MiddleLeft", "MiddleRight"}

\* f32::signum of the quotient num / den: 1.0 for +0.0, -1.0 for -0.0
SignumQ(num, den) ==
    IF num[1] = 0 THEN (IF den[1] < 0 THEN -1 ELSE 1)
    ELSE Sign(num[1]) * Sign(den[1])

\* snap_to_grid that takes the snapped x for both axes
snap_to_grid_one_axis(self, transform) ==
    LET translation == MatGetTranslation(transform)
        snapped_x == RMul(RRound(RDiv(translation.x, self.grid_size)), self.grid_size)
    IN  MatSetTranslation(transform, Pt(snapped_x, snapped_x))

snap_to_grid(self, transform) ==
    LET translation == MatGetTranslation(transform)
        snapped_x == RMul(RRound(RDiv(translation.x, self.grid_size)), self.grid_size)
        snapped_y == RMul(RRound(RDiv(translation.y, self.grid_size)), self.grid_size)
    IN  MatSetTranslation(transform, Pt(snapped_x, snapped_y))

\* the scale factors with the uniform magnitude applied without the signs
FinalScale_unsigned(self, session, current_point) ==
    LET scale_x == RDiv(RSub(current_point.x, session.origin.x),
                        RSub(session.start_point.x, session.origin.x))
        scale_y == RDiv(RSub(current_point.y, session.origin.y),
                        RSub(session.start_point.y, session.origin.y))
        fx == IF session.handle_type \in {"TopCenter", "BottomCenter"} THEN R(1) ELSE scale_x
        fy == IF session.handle_type \in {"MiddleLeft", "MiddleRight"} THEN R(1) ELSE scale_y
        uniform == RMaxOf(RAbs(fx), RAbs(fy))
    IN  IF is_constraint_enabled(self, "MaintainAspectRatio")
        THEN Pt(uniform, uniform)
        ELSE Pt(fx, fy)

\* the scale factors with the edge handles scaling both axes
FinalScale_both_axes(self, session, current_point) ==
    LET num_x == RSub(current_point.x, session.origin.x)
        num_y == RSub(current_point.y, session.origin.y)
        den_x == RSub(session.start_point.x, session.origin.x)
        den_y == RSub(session.start_point.y, session.origin.y)
        fx == RDiv(num_x, den_x)
        fy == RDiv(num_y, den_y)
        uniform == RMaxOf(RAbs(fx), RAbs(fy))
    IN  IF is_constraint_enabled(self, "MaintainAspectRatio")
        THEN Pt(RMul(uniform, R(SignumQ(num_x, den_x))), RMul(uniform, R(SignumQ(num_y, den_y))))
        ELSE Pt(fx, fy)

\* the scale factors (final_scale_x, final_scale_y) of a corner or edge handle
FinalScale(self, session, current_point) ==
    LET num_x == RSub(current_point.x, session.origin.x)
        num_y == RSub(current_point.y, session.origin.y)
        den_x == RSub(session.start_point.x, session.origin.x)
        den_y == RSub(session.start_point.y, session.origin.y)
        scale_x == RDiv(num_x, den_x)
        scale_y == RDiv(num_y, den_y)
        is_tb == session.handle_type \in {"TopCenter", "BottomCenter"}
        is_lr == session.handle_type \in {"MiddleLeft", "MiddleRight"}
        fx == IF is_tb THEN R(1) ELSE scale_x
        fy == IF is_lr THEN R(1) ELSE scale_y
        sign_x == IF is_tb THEN 1 ELSE SignumQ(num_x, den_x)
        sign_y == IF is_lr THEN 1 ELSE SignumQ(num_y, den_y)
        uniform == RMaxOf(RAbs(fx), RAbs(fy))
    IN  IF is_constraint_enabled(self, "MaintainAspectRatio")
        THEN Pt(RMul(uniform, R(sign_x)), RMul(uniform, R(sign_y)))
        ELSE Pt(fx, fy)

\* the transform of the previous frame
PreviousOf(session, element_id) == session.current_transforms[element_id]

\* the transform an update of element_id starts from
InitialOf(session, element_id) == session.initial_states[element_id].transform

\* the transform of one element with the division skipped only when both
\* denominators are too small
DeltaTransform_guarding_both(self, session, element_id, current_point) ==
    LET new_transform == InitialOf(session, element_id)
        delta == Pt(RSub(current_point.x, session.start_point.x),
                    RSub(current_point.y, session.start_point.y))
    IN  CASE session.handle_type = "Center" ->
               MatMul(MatTranslation(delta.x, delta.y), new_transform)
          [] session.handle_type \in CornerOrEdge ->
               IF ~is_constraint_enabled(self, "LockScale")
               THEN LET denom_x == RAbs(RSub(session.start_point.x, session.origin.x))
                        denom_y == RAbs(RSub(session.start_point.y, session.origin.y))
                    IN  IF RLt(denom_x, Epsilon) /\ RLt(denom_y, Epsilon)
                        THEN new_transform
                        ELSE LET f == FinalScale(self, session, current_point)
                             IN  MatMul(MatScale(f.x, f.y), new_transform)
               ELSE new_transform
          [] OTHER ->
               IF ~is_constraint_enabled(self, "LockRotation")
               THEN LET start_angle == Atan2E(RSub(session.start_point.y, session.origin.y),
                                              RSub(session.start_point.x, session.origin.x))
                        current_angle == Atan2E(RSub(current_point.y, session.origin.y),
                                                RSub(current_point.x, session.origin.x))
                        delta_angle == current_angle - start_angle
                    IN  MatMul(MatRotation(delta_angle), new_transform)
               ELSE new_transform

\* the transform of one element with the lock-scale constraint not consulted
DeltaTransform_scaling_locked(self, session, element_id, current_point) ==
    LET new_transform == InitialOf(session, element_id)
        delta == Pt(RSub(current_point.x, session.start_point.x),
                    RSub(current_point.y, session.start_point.y))
    IN  CASE session.handle_type = "Center" ->
               MatMul(MatTranslation(delta.x, delta.y), new_transform)
          [] session.handle_type \in CornerOrEdge ->
               LET denom_x == RAbs(RSub(session.start_point.x, session.origin.x))
                   denom_y == RAbs(RSub(session.start_point.y, session.origin.y))
               IN  IF RLt(denom_x, Epsilon) \/ RLt(denom_y, Epsilon)
                   THEN new_transform
                   ELSE LET f == FinalScale(self, session, current_point)
                        IN  MatMul(MatScale(f.x, f.y), new_transform)
          [] OTHER ->
               IF ~is_constraint_enabled(self, "LockRotation")
               THEN LET start_angle == Atan2E(RSub(session.start_point.y, session.origin.y),
                                              RSub(session.start_point.x, session.origin.x))
                        current_angle == Atan2E(RSub(current_point.y, session.origin.y),
                                                RSub(current_point.x, session.origin.x))
                        delta_angle == current_angle - start_angle
                    IN  MatMul(MatRotation(delta_angle), new_transform)
               ELSE new_transform

\* the transform of one element with the rotation handle consulting the
\* lock-scale constraint in place of the lock-rotation constraint
DeltaTransform_rotating_locked(self, session, element_id, current_point) ==
    LET new_transform == InitialOf(session, element_id)
        delta == Pt(RSub(current_point.x, session.start_point.x),
                    RSub(current_point.y, session.start_point.y))
    IN  CASE session.handle_type = "Center" ->
               MatMul(MatTranslation(delta.x, delta.y), new_transform)
          [] session.handle_type \in CornerOrEdge ->
               IF ~is_constraint_enabled(self, "LockScale")
               THEN LET denom_x == RAbs(RSub(session.start_point.x, session.origin.x))
                        denom_y == RAbs(RSub(session.start_point.y, session.origin.y))
                    IN  IF RLt(denom_x, Epsilon) \/ RLt(denom_y, Epsilon)
                        THEN new_transform
                        ELSE LET f == FinalScale(self, session, current_point)
                             IN  MatMul(MatScale(f.x, f.y), new_transform)
               ELSE new_transform
          [] OTHER ->
               IF ~is_constraint_enabled(self, "LockScale")
               THEN LET start_angle == Atan2E(RSub(session.start_point.y, session.origin.y),
                                              RSub(session.start_point.x, session.origin.x))
                        current_angle == Atan2E(RSub(current_point.y, session.origin.y),
                                                RSub(current_point.x, session.origin.x))
                        delta_angle == current_angle - start_angle
                    IN  MatMul(MatRotation(delta_angle), new_transform)
               ELSE new_transform

\* the transform of one element with the center handle composing the
\* translation after the initial transform
DeltaTransform_translating_after(self, session, element_id, current_point) ==
    LET new_transform == InitialOf(session, element_id)
        delta == Pt(RSub(current_point.x, session.start_point.x),
                    RSub(current_point.y, session.start_point.y))
    IN  CASE session.handle_type = "Center" ->
               MatMul(new_transform, MatTranslation(delta.x, delta.y))
          [] session.handle_type \in CornerOrEdge ->
               IF ~is_constraint_enabled(self, "LockScale")
               THEN LET denom_x == RAbs(RSub(session.start_point.x, session.origin.x))
                        denom_y == RAbs(RSub(session.start_point.y, session.origin.y))
                    IN  IF RLt(denom_x, Epsilon) \/ RLt(denom_y, Epsilon)
                        THEN new_transform
                        ELSE LET f == FinalScale(self, session, current_point)
                             IN  MatMul(MatScale(f.x, f.y), new_transform)
               ELSE new_transform
          [] OTHER ->
               IF ~is_constraint_enabled(self, "LockRotation")
               THEN LET start_angle == Atan2E(RSub(session.start_point.y, session.origin.y),
                                              RSub(session.start_point.x, session.origin.x))
                        current_angle == Atan2E(RSub(current_point.y, session.origin.y),
                                                RSub(current_point.x, session.origin.x))
                        delta_angle == current_angle - start_angle
                    IN  MatMul(MatRotation(delta_angle), new_transform)
               ELSE new_transform

\* the transform of one element with the two scale factors exchanged
DeltaTransform_swapped(self, session, element_id, current_point) ==
    LET new_transform == InitialOf(session, element_id)
        delta == Pt(RSub(current_point.x, session.start_point.x),
                    RSub(current_point.y, session.start_point.y))
    IN  CASE session.handle_type = "Center" ->
               MatMul(MatTranslation(delta.x, delta.y), new_transform)
          [] session.handle_type \in CornerOrEdge ->
               IF ~is_constraint_enabled(self, "LockScale")
               THEN LET denom_x == RAbs(RSub(session.start_point.x, session.origin.x))
                        denom_y == RAbs(RSub(session.start_point.y, session.origin.y))
                    IN  IF RLt(denom_x, Epsilon) \/ RLt(denom_y, Epsilon)
                        THEN new_transform
                        ELSE LET f == FinalScale(self, session, current_point)
                             IN  MatMul(MatScale(f.y, f.x), new_transform)
               ELSE new_transform
          [] OTHER ->
               IF ~is_constraint_enabled(self, "LockRotation")
               THEN LET start_angle == Atan2E(RSub(session.start_point.y, session.origin.y),
                                              RSub(session.start_point.x, session.origin.x))
                        current_angle == Atan2E(RSub(current_point.y, session.origin.y),
                                                RSub(current_point.x, session.origin.x))
                        delta_angle == current_angle - start_angle
                    IN  MatMul(MatRotation(delta_angle), new_transform)
               ELSE new_transform

\* the transform update_transform computes for one element, before snapping
DeltaTransform(self, session, element_id, current_point) ==
    LET new_transform == InitialOf(session, element_id)
        delta == Pt(RSub(current_point.x, session.start_point.x),
                    RSub(current_point.y, session.start_point.y))
    IN  CASE session.handle_type = "Center" ->
               MatMul(MatTranslation(delta.x, delta.y), new_transform)
          [] session.handle_type \in CornerOrEdge ->
               IF ~is_constraint_enabled(self, "LockScale")
               THEN LET denom_x == RAbs(RSub(session.start_point.x, session.origin.x))
                        denom_y == RAbs(RSub(session.start_point.y, session.origin.y))
                    IN  IF RLt(denom_x, Epsilon) \/ RLt(denom_y, Epsilon)
                        THEN new_transform
                        ELSE LET f == FinalScale(self, session, current_point)
                             IN  MatMul(MatScale(f.x, f.y), new_transform)
               ELSE new_transform
          [] OTHER ->
               IF ~is_constraint_enabled(self, "LockRotation")
               THEN LET start_angle == Atan2E(RSub(session.start_point.y, session.origin.y),
                                              RSub(session.start_point.x, session.origin.x))
                        current_angle == Atan2E(RSub(current_point.y, session.origin.y),
                                                RSub(current_point.x, session.origin.x))
                        delta_angle == current_angle - start_angle
                    IN  MatMul(MatRotation(delta_angle), new_transform)
               ELSE new_transform

NewTransform(self, session, element_id, current_point) ==
    LET t == DeltaTransform(self, session, element_id, current_point)
    IN  IF is_constraint_enabled(self, "SnapToGrid") THEN snap_to_grid(self, t) ELSE t

\* update_transform that moves the start point to the pointer after each update
update_transform_ratchet(self, current_point) ==
    IF self.current_transform = None
    THEN Res(self, RetNone)
    ELSE LET session == self.current_transform[1]
             transforms ==
                 [id \in SeqRange(session.element_ids) \cap DOMAIN session.initial_states |->
                     NewTransform(self, session, id, current_point)]
         IN  Res([self EXCEPT !.current_transform =
                     Some([session EXCEPT !.current_transforms = transforms,
                                          !.start_point = current_point])],
                 RetSome(transforms))

\* update_transform that takes the session out of the engine
update_transform_taking(self, current_point) ==
    IF self.current_transform = None
    THEN Res(self, RetNone)
    ELSE LET session == self.current_transform[1]
             transforms ==
                 [id \in SeqRange(session.element_ids) \cap DOMAIN session.initial_states |->
                     NewTransform(self, session, id, current_point)]
         IN  Res([self EXCEPT !.current_transform = None], RetSome(transforms))

\* update_transform that writes the new transforms into the snapshots
update_transform_committing(self, current_point) ==
    IF self.current_transform = None
    THEN Res(self, RetNone)
    ELSE LET session == self.current_transform[1]
             transforms ==
                 [id \in SeqRange(session.element_ids) \cap DOMAIN session.initial_states |->
                     NewTransform(self, session, id, current_point)]
         IN  Res([self EXCEPT !.current_transform =
                     Some([session EXCEPT
                              !.current_transforms = transforms,
                              !.initial_states =
                                  [id \in DOMAIN @ |->
                                      IF id \in DOMAIN transforms
                                      THEN [@[id] EXCEPT !.transform = transforms[id]]
                                      ELSE @[id]]])],
                 RetSome(transforms))

update_transform(self, current_point) ==
    IF self.current_transform = None
    THEN Res(self, RetNone)
    ELSE LET session == self.current_transform[1]
             transforms ==
                 [id \in SeqRange(session.element_ids) \cap DOMAIN session.initial_states |->
                     NewTransform(self, session, id, current_point)]
         IN  Res([self EXCEPT !.current_transform =
                     Some([session EXCEPT !.current_transforms = transforms])],
                 RetSome(transforms))

\* finish_transform that returns the transforms and keeps the session
finish_transform_keeping(self) ==
    IF self.current_transform # None
    THEN Res(self, RetSome(self.current_transform[1].current_transforms))
    ELSE Res(self, RetNone)

\* finish_transform that returns the transforms the session started with
finish_transform_initial(self) ==
    IF self.current_transform # None
    THEN Res([self EXCEPT !.current_transform = None],
             RetSome([id \in DOMAIN self.current_transform[1].initial_states |->
                         self.current_transform[1].initial_states[id].transform]))
    ELSE Res(self, RetNone)

finish_transform(self) ==
    IF self.current_transform # None
    THEN Res([self EXCEPT !.current_transform = None],
             RetSome(self.current_transform[1].current_transforms))
    ELSE Res(self, RetNone)

\* cancel_transform that returns an empty map when no session is in progress
cancel_transform_empty_map(self) ==
    IF self.current_transform # None
    THEN Res([self EXCEPT !.current_transform = None],
             RetSome([id \in DOMAIN self.current_transform[1].initial_states |->
                         self.current_transform[1].initial_states[id].transform]))
    ELSE Res(self, RetSome(EmptyMap))

\* cancel_transform that returns the transforms of the last update
cancel_transform_current(self) ==
    IF self.current_transform # None
    THEN Res([self EXCEPT !.current_transform = None],
             RetSome(self.current_transform[1].current_transforms))
    ELSE Res(self, RetNone)

cancel_transform(self) ==
    IF self.current_transform # None
    THEN Res([self EXCEPT !.current_transform = None],
             RetSome([id \in DOMAIN self.current_transform[1].initial_states |->
                         self.current_transform[1].initial_states[id].transform]))
    ELSE Res(self, RetNone)

AlignmentGuide(id, orientation, position, element_ids) ==
    [id |-> id, orientation |-> orientation, position |-> position,
     element_ids |-> element_ids]

add_alignment_guide(self, orientation, position, element_ids) ==
    LET id == Len(self.active_guides)
    IN  Res([self EXCEPT !.active_guides =
                Append(@, AlignmentGuide(id, orientation, position, element_ids))],
            RetId(id))

remove_alignment_guide(self, guide_id) ==
    Res([self EXCEPT !.active_guides = SelectSeq(@, LAMBDA guide : guide.id # guide_id)],
        RetUnit)

clear_alignment_guides(self) == Res([self EXCEPT !.active_guides = <<>>], RetUnit)

set_grid_size(self, size) == Res([self EXCEPT !.grid_size = size], RetUnit)

set_snap_threshold(self, threshold) == Res([self EXCEPT !.snap_threshold = threshold], RetUnit)

\* a value returned by a call that is neither a Result nor a map of transforms
RetValue(tag, value) ==
    [tag |-> tag, err |-> "", map |-> EmptyMap, id |-> 0, value |-> value]

Handle(handle_type, position, bounds) ==
    [handle_type |-> handle_type, position |-> position, bounds |-> bounds]

\* the side of the hit box of a handle
HandleSize == R(8)

\* the distance of the rotation handle above the top edge
RotationOffset == R(20)

calculate_handles(self, bounds) ==
    LET handle_size == HandleSize
        left == bounds.min.x
        right == bounds.max.x
        top == bounds.min.y
        bottom == bounds.max.y
        center_x == RDiv(RAdd(left, right), R(2))
        center_y == RDiv(RAdd(top, bottom), R(2))
        minus_half == RDiv(RSub(R(0), handle_size), R(2))
        plus_half == RDiv(handle_size, R(2))
        handle_bounds == Bnd(Pt(minus_half, minus_half), Pt(plus_half, plus_half))
    IN  << Handle("TopLeft", Pt(left, top), handle_bounds),
           Handle("TopCenter", Pt(center_x, top), handle_bounds),
           Handle("TopRight", Pt(right, top), handle_bounds),
           Handle("MiddleLeft", Pt(left, center_y), handle_bounds),
           Handle("MiddleRight", Pt(right, center_y), handle_bounds),
           Handle("BottomLeft", Pt(left, bottom), handle_bounds),
           Handle("BottomCenter", Pt(center_x, bottom), handle_bounds),
           Handle("BottomRight", Pt(right, bottom), handle_bounds),
           Handle("Center", Pt(center_x, center_y), handle_bounds),
           Handle("Rotation", Pt(center_x, RSub(top, RotationOffset)), handle_bounds) >>

\* Bounds::contains_point: the point lies in the rectangle, its edges included
BoundsContainsPoint(bounds, point) ==
    /\ ~RLt(point.x, bounds.min.x)
    /\ ~RLt(bounds.max.x, point.x)
    /\ ~RLt(point.y, bounds.min.y)
    /\ ~RLt(bounds.max.y, point.y)

\* the rectangle hit_test_handle tests the point against
HandleHitBounds(handle) ==
    Bnd(Pt(RAdd(handle.position.x, handle.bounds.min.x),
           RAdd(handle.position.y, handle.bounds.min.y)),
        Pt(RAdd(handle.position.x, handle.bounds.max.x),
           RAdd(handle.position.y, handle.bounds.max.y)))

\* hit_test_handle that returns the last handle that matches
hit_test_handle_last(self, point, handles) ==
    LET hits == {i \in 1..Len(handles) : BoundsContainsPoint(HandleHitBounds(handles[i]), point)}
    IN  IF hits = {} THEN None
        ELSE Some(handles[CHOOSE i \in hits : \A j \in hits : j <= i].handle_type)

\* hit_test_handle that tests the point against the bounds of the handle
\* without moving them to its position
hit_test_handle_unplaced(self, point, handles) ==
    LET hits == {i \in 1..Len(handles) : BoundsContainsPoint(handles[i].bounds, point)}
    IN  IF hits = {} THEN None
        ELSE Some(handles[CHOOSE i \in hits : \A j \in hits : i <= j].handle_type)

hit_test_handle(self, point, handles) ==
    LET hits == {i \in 1..Len(handles) : BoundsContainsPoint(HandleHitBounds(handles[i]), point)}
    IN  IF hits = {} THEN None
        ELSE Some(handles[CHOOSE i \in hits : \A j \in hits : i <= j].handle_type)

cursor_for_handle(self, handle_type) ==
    CASE handle_type \in {"TopLeft", "BottomRight"} -> "nw-resize"
      [] handle_type \in {"TopRight", "BottomLeft"} -> "ne-resize"
      [] handle_type \in {"TopCenter", "BottomCenter"} -> "n-resize"
      [] handle_type \in {"MiddleLeft", "MiddleRight"} -> "e-resize"
      [] handle_type = "Center" -> "move"
      [] handle_type = "Rotation" -> "crosshair"

\* the value a coordinate is left with after each of candidates, in order,
\* has replaced it when the coordinate given is nearer to it than threshold
LastWithin(candidates, coordinate, threshold, otherwise) ==
    LET hits == SelectSeq(candidates,
                          LAMBDA c : RLt(RAbs(RSub(coordinate, c)), threshold))
    IN  IF hits = <<>> THEN otherwise ELSE hits[Len(hits)]

\* the positions of the guides of this orientation, in the order of the store
GuidePositionsOf(guides, orientation) ==
    LET kept == SelectSeq(guides, LAMBDA guide : guide.orientation = orientation)
    IN  [i \in 1..Len(kept) |-> kept[i].position]

\* the six values snap_point_to_guides takes from each of element_bounds
ObjectEdges(element_bounds) ==
    LET EdgesOf(bounds) ==
            << bounds.min.x, bounds.max.x, bounds.min.y, bounds.max.y,
               RDiv(RAdd(bounds.min.x, bounds.max.x), R(2)),
               RDiv(RAdd(bounds.min.y, bounds.max.y), R(2)) >>
    IN  [k \in 1..(6 * Len(element_bounds)) |->
            EdgesOf(element_bounds[((k - 1) \div 6) + 1])[((k - 1) % 6) + 1]]

\* snap_point_to_guides that clamps x to horizontal guides and y to vertical
snap_point_to_guides_swapped(self, point, element_bounds) ==
    LET threshold == self.snap_threshold
        guide_y == LastWithin(GuidePositionsOf(self.active_guides, "Vertical"),
                              point.y, threshold, point.y)
        guide_x == LastWithin(GuidePositionsOf(self.active_guides, "Horizontal"),
                              point.x, threshold, point.x)
        edges == ObjectEdges(element_bounds)
    IN  IF is_constraint_enabled(self, "SnapToObject")
        THEN Pt(LastWithin(edges, point.x, threshold, guide_x),
                LastWithin(edges, point.y, threshold, guide_y))
        ELSE Pt(guide_x, guide_y)

snap_point_to_guides(self, point, element_bounds) ==
    LET threshold == self.snap_threshold
        guide_y == LastWithin(GuidePositionsOf(self.active_guides, "Horizontal"),
                              point.y, threshold, point.y)
        guide_x == LastWithin(GuidePositionsOf(self.active_guides, "Vertical"),
                              point.x, threshold, point.x)
        edges == ObjectEdges(element_bounds)
    IN  IF is_constraint_enabled(self, "SnapToObject")
        THEN Pt(LastWithin(edges, point.x, threshold, guide_x),
                LastWithin(edges, point.y, threshold, guide_y))
        ELSE Pt(guide_x, guide_y)

(***************************************************************************)
(* core::vector (types.rs): Transform, BoundingBox and VectorElement.  The *)
(* rotation of a Transform is an angle in eighths of a turn.               *)
(***************************************************************************)
Transform(tx, ty, sx, sy, rotation, kx, ky) ==
    [translate_x |-> tx, translate_y |-> ty, scale_x |-> sx, scale_y |-> sy,
     rotation |-> rotation, skew_x |-> kx, skew_y |-> ky]

TransformIdentity == Transform(R(0), R(0), R(1), R(1), 0, R(0), R(0))

BoundingBox(x, y, width, height) == [x |-> x, y |-> y, width |-> width, height |-> height]

VectorElement(id, transform, bounding_box) ==
    [id |-> id, transform |-> transform, bounding_box |-> bounding_box]

transform_point(self, point) ==
    LET cos_r == CosE(self.rotation)
        sin_r == SinE(self.rotation)
        scaled_x == RMul(point.x, self.scale_x)
        scaled_y == RMul(point.y, self.scale_y)
        rotated_x == RSub(RMul(scaled_x, cos_r), RMul(scaled_y, sin_r))
        rotated_y == RAdd(RMul(scaled_x, sin_r), RMul(scaled_y, cos_r))
    IN  Pt(RAdd(rotated_x, self.translate_x), RAdd(rotated_y, self.translate_y))

(***************************************************************************)
(* The wasm-facing TransformEngine (engine.rs).  self is the record of the *)
(* fields grid, constraints, alignment_guides, snap_threshold, viewport    *)
(* and current_action.                                                     *)
(***************************************************************************)
WasmGuide(id, guide_type, position, elements, temporary) ==
    [id |-> id, guide_type |-> guide_type, position |-> position,
     elements |-> elements, temporary |-> temporary]

TransformAction(action_type, element_ids, delta, origin) ==
    [action_type |-> action_type, element_ids |-> element_ids, delta |-> delta,
     origin |-> origin, constraints_met |-> <<>>]

WasmEngineNew ==
    [grid |-> [enabled |-> FALSE, size |-> R(20), snap |-> FALSE],
     constraints |-> <<Constraint("SnapToGrid", FALSE), Constraint("SnapToObject", TRUE),
                       Constraint("MaintainAspect", FALSE), Constraint("LockRotation", FALSE),
                       Constraint("LockScale", FALSE)>>,
     alignment_guides |-> <<>>,
     snap_threshold |-> R(5),
     viewport |-> [x |-> R(0), y |-> R(0), zoom |-> R(1), width |-> R(800), height |-> R(600)],
     current_action |-> None]

wasm_is_constraint_enabled(self, constraint_type) ==
    LET found == SelectSeq(self.constraints, LAMBDA c : c.constraint_type = constraint_type)
    IN  IF found # <<>> THEN found[1].enabled ELSE FALSE

wasm_snap_to_grid(self, point) ==
    IF ~self.grid.enabled \/ ~self.grid.snap
    THEN point
    ELSE Pt(RMul(RRound(RDiv(point.x, self.grid.size)), self.grid.size),
            RMul(RRound(RDiv(point.y, self.grid.size)), self.grid.size))

apply_constraints(self, delta) ==
    LET aspect == /\ wasm_is_constraint_enabled(self, "MaintainAspect")
                  /\ (delta.scale_x # R(1) \/ delta.scale_y # R(1))
        wider == RLt(RAbs(delta.scale_y), RAbs(delta.scale_x))
        d1 == IF aspect
              THEN IF wider THEN [delta EXCEPT !.scale_y = delta.scale_x]
                   ELSE [delta EXCEPT !.scale_x = delta.scale_y]
              ELSE delta
        d2 == IF wasm_is_constraint_enabled(self, "LockRotation")
              THEN [d1 EXCEPT !.rotation = 0] ELSE d1
        d3 == IF wasm_is_constraint_enabled(self, "LockScale")
              THEN [d2 EXCEPT !.scale_x = R(1), !.scale_y = R(1)] ELSE d2
        snapped_translation == wasm_snap_to_grid(self, Pt(delta.translate_x, delta.translate_y))
    IN  IF wasm_is_constraint_enabled(self, "SnapToGrid")
        THEN [d3 EXCEPT !.translate_x = snapped_translation.x,
                        !.translate_y = snapped_translation.y]
        ELSE d3

\* the SnapResult of apply_snapping: nothing is ever snapped
apply_snapping(self, delta) ==
    [snapped |-> FALSE,
     position |-> Pt(delta.translate_x, delta.translate_y),
     offset |-> Pt(R(0), R(0)),
     guides |-> <<>>]

add_transforms(a, b) ==
    Transform(RAdd(a.translate_x, b.translate_x), RAdd(a.translate_y, b.translate_y),
              RMul(a.scale_x, b.scale_x), RMul(a.scale_y, b.scale_y),
              a.rotation + b.rotation,
              RAdd(a.skew_x, b.skew_x), RAdd(a.skew_y, b.skew_y))

combine_transforms(base, delta, origin) ==
    LET cos_r == CosE(delta.rotation)
        sin_r == SinE(delta.rotation)
        dx == origin.x
        dy == origin.y
    IN  Transform(
            RAdd(RAdd(RAdd(base.translate_x, delta.translate_x),
                      RMul(dx, RSub(RMul(delta.scale_x, cos_r), R(1)))),
                 RMul(dy, RMul(delta.scale_x, sin_r))),
            RAdd(RAdd(RAdd(base.translate_y, delta.translate_y),
                      RMul(dx, RMul(RSub(R(0), delta.scale_y), sin_r))),
                 RMul(dy, RSub(RMul(delta.scale_y, cos_r), R(1)))),
            RMul(base.scale_x, delta.scale_x),
            RMul(base.scale_y, delta.scale_y),
            base.rotation + delta.rotation,
            RAdd(base.skew_x, delta.skew_x),
            RAdd(base.skew_y, delta.skew_y))

\* transform_bounds that takes the box from the first mapped corner to the
\* mapped corner diagonally opposite, without the minimum and the maximum
transform_bounds_diagonal(bounds, transform) ==
    LET first == transform_point(transform, Pt(bounds.x, bounds.y))
        third == transform_point(transform, Pt(RAdd(bounds.x, bounds.width),
                                               RAdd(bounds.y, bounds.height)))
    IN  BoundingBox(first.x, first.y, RSub(third.x, first.x), RSub(third.y, first.y))

transform_bounds(bounds, transform) ==
    LET corners == {Pt(bounds.x, bounds.y),
                    Pt(RAdd(bounds.x, bounds.width), bounds.y),
                    Pt(RAdd(bounds.x, bounds.width), RAdd(bounds.y, bounds.height)),
                    Pt(bounds.x, RAdd(bounds.y, bounds.height))}
        transformed_corners == {transform_point(transform, corner) : corner \in corners}
        min_x == RMinSet({p.x : p \in transformed_corners})
        min_y == RMinSet({p.y : p \in transformed_corners})
        max_x == RMaxSet({p.x : p \in transformed_corners})
        max_y == RMaxSet({p.y : p \in transformed_corners})
    IN  BoundingBox(min_x, min_y, RSub(max_x, min_x), RSub(max_y, min_y))

transform_element(element, delta, origin) ==
    LET transform == combine_transforms(element.transform, delta, origin)
    IN  [element EXCEPT !.transform = transform,
                        !.bounding_box = transform_bounds(element.bounding_box, transform)]

scale_element(element, scale, origin) ==
    transform_element(element,
                      Transform(R(0), R(0), scale.x, scale.y, 0, R(0), R(0)),
                      origin)

\* clear_temporary_guides that keeps the non-temporary guides newest first
clear_temporary_guides_reversing(self) ==
    LET kept == SelectSeq(self.alignment_guides, LAMBDA guide : ~guide.temporary)
    IN  [self EXCEPT !.alignment_guides = [i \in 1..Len(kept) |-> kept[Len(kept) + 1 - i]]]

clear_temporary_guides(self) ==
    [self EXCEPT !.alignment_guides = SelectSeq(@, LAMBDA guide : ~guide.temporary)]

\* the value a call of the wasm-facing engine returns
WasmRet(tag, elements, guides, action) ==
    [tag |-> tag, elements |-> elements, guides |-> guides, action |-> action]

WasmUnit == WasmRet("Unit", <<>>, <<>>, None)

wasm_start_transform(self, element_ids, action_type, origin) ==
    Res([self EXCEPT !.current_action =
            Some(TransformAction(action_type, element_ids, TransformIdentity, origin))],
        WasmUnit)

wasm_update_transform(self, delta, elements) ==
    IF self.current_action = None
    THEN Res(self, WasmRet("Elements", elements, <<>>, None))
    ELSE LET constrained_delta == apply_constraints(self, delta)
             snap_result == apply_snapping(self, constrained_delta)
             new_delta ==
                 IF snap_result.snapped
                 THEN add_transforms(constrained_delta,
                                     Transform(snap_result.offset.x, snap_result.offset.y,
                                               R(1), R(1), 0, R(0), R(0)))
                 ELSE constrained_delta
             action == [self.current_action[1] EXCEPT !.delta = new_delta]
             transformed_elements ==
                 [i \in 1..Len(elements) |->
                     transform_element(elements[i], action.delta, action.origin)]
         IN  Res([self EXCEPT !.current_action = Some(action)],
                 WasmRet("Elements", transformed_elements, snap_result.guides, None))

end_transform(self) ==
    Res(clear_temporary_guides([self EXCEPT !.current_action = None]),
        WasmRet("Action", <<>>, <<>>, self.current_action))

wasm_cancel_transform(self) ==
    Res(clear_temporary_guides([self EXCEPT !.current_action = None]), WasmUnit)

set_grid(self, enabled, size, snap) ==
    Res([self EXCEPT !.grid = [enabled |-> enabled, size |-> size, snap |-> snap]], WasmUnit)

SelectionHandle(id, handle_type, position, cursor, bounds) ==
    [id |-> id, handle_type |-> handle_type, position |-> position, cursor |-> cursor,
     bounds |-> bounds]

\* BoundingBox::contains_point
contains_point(self, point) ==
    /\ ~RLt(point.x, self.x)
    /\ ~RLt(RAdd(self.x, self.width), point.x)
    /\ ~RLt(point.y, self.y)
    /\ ~RLt(RAdd(self.y, self.height), point.y)

generate_selection_handles(self, selection) ==
    LET bounds == selection.bounds
        handle_size == RDiv(HandleSize, self.viewport.zoom)
        half == RDiv(handle_size, R(2))
        rotation_offset == RDiv(RotationOffset, self.viewport.zoom)
        right == RAdd(bounds.x, bounds.width)
        bottom == RAdd(bounds.y, bounds.height)
        mid_x == RAdd(bounds.x, RDiv(bounds.width, R(2)))
        mid_y == RAdd(bounds.y, RDiv(bounds.height, R(2)))
        At(id, handle_type, x, y, cursor) ==
            SelectionHandle(id, handle_type, Pt(x, y), cursor,
                            BoundingBox(RSub(x, half), RSub(y, half), handle_size, handle_size))
    IN  << At("nw", "Corner", bounds.x, bounds.y, "nw-resize"),
           At("ne", "Corner", right, bounds.y, "ne-resize"),
           At("sw", "Corner", bounds.x, bottom, "sw-resize"),
           At("se", "Corner", right, bottom, "se-resize"),
           At("n", "Edge", mid_x, bounds.y, "n-resize"),
           At("s", "Edge", mid_x, bottom, "s-resize"),
           At("w", "Edge", bounds.x, mid_y, "w-resize"),
           At("e", "Edge", right, mid_y, "e-resize"),
           At("rotation", "Rotation", mid_x, RSub(bounds.y, rotation_offset), "grab"),
           At("center", "Center", mid_x, mid_y, "move") >>

get_handle_at_point(self, handles, point) ==
    LET hits == {i \in 1..Len(handles) : contains_point(handles[i].bounds, point)}
    IN  IF hits = {} THEN None
        ELSE Some(handles[CHOOSE i \in hits : \A j \in hits : i <= j])

set_viewport(self, viewport) == Res([self EXCEPT !.viewport = viewport], WasmUnit)

translate_element(element, offset) ==
    transform_element(element,
                      Transform(offset.x, offset.y, R(1), R(1), 0, R(0), R(0)),
                      Pt(R(0), R(0)))

\* the offset align_elements gives the element with bounding box b when the
\* bounding boxes of all the elements are bounds
AlignOffset(bounds, b, alignment) ==
    LET min_x == RMinSet({o.x : o \in bounds})
        max_x == RMaxSet({RAdd(o.x, o.width) : o \in bounds})
        min_y == RMinSet({o.y : o \in bounds})
        max_y == RMaxSet({RAdd(o.y, o.height) : o \in bounds})
        center_x == RDiv(RAdd(min_x, max_x), R(2))
        center_y == RDiv(RAdd(min_y, max_y), R(2))
    IN  CASE alignment = "left" -> Pt(RSub(min_x, b.x), R(0))
          [] alignment = "center" ->
                 Pt(RSub(center_x, RAdd(b.x, RDiv(b.width, R(2)))), R(0))
          [] alignment = "right" -> Pt(RSub(max_x, RAdd(b.x, b.width)), R(0))
          [] alignment = "top" -> Pt(R(0), RSub(min_y, b.y))
          [] alignment = "middle" ->
                 Pt(R(0), RSub(center_y, RAdd(b.y, RDiv(b.height, R(2)))))
          [] alignment = "bottom" -> Pt(R(0), RSub(max_y, RAdd(b.y, b.height)))

AlignmentModes == {"left", "center", "right", "top", "middle", "bottom"}

\* align_elements without the early return for fewer than two elements
align_elements_unguarded(elements, alignment) ==
    LET bounds == {elements[i].bounding_box : i \in 1..Len(elements)}
    IN  IF alignment \in AlignmentModes
        THEN [i \in 1..Len(elements) |->
                 translate_element(elements[i],
                                   AlignOffset(bounds, elements[i].bounding_box, alignment))]
        ELSE elements

align_elements(elements, alignment) ==
    IF Len(elements) < 2
    THEN elements
    ELSE LET bounds == {elements[i].bounding_box : i \in 1..Len(elements)}
         IN  IF alignment \in AlignmentModes
             THEN [i \in 1..Len(elements) |->
                      translate_element(elements[i],
                                        AlignOffset(bounds, elements[i].bounding_box,
                                                    alignment))]
             ELSE elements

(***************************************************************************)
(* Inputs the callers supply, drawn from small sets.                       *)
(***************************************************************************)
\* element 1: scaled by 2 and moved by (3, 4); element 2: untransformed
StateA == [transform |-> Mat(R(2), R(0), R(0), R(2), R(3), R(4)),
           bounds |-> Bnd(PtI(2, 2), PtI(6, 6))]

StateB == [transform |-> MatIdentity, bounds |-> Bnd(PtI(0, 0), PtI(8, 8))]

ElementBoundsMaps == {[id \in {1} |-> StateA],
                      [id \in {1, 2} |-> IF id = 1 THEN StateA ELSE StateB]}

ElementIdLists == {<<>>, <<1>>, <<1, 2>>}

StartPoints == {PtI(8, 8)}

CurrentPoints == {PtI(4, 8), PtI(0, 0)}

\* one handle of each kind the engine tells apart: a corner, an edge, the
\* rotation handle and the center handle (SpecDrag takes all ten)
StartHandles == {"TopLeft", "BottomCenter", "Rotation", "Center"}

GridSizes == {R(0), R(20)}

SnapThresholds == {R(3)}

GuidePositions == {R(4)}

NoPoint == PtI(0, 0)

(***************************************************************************)
(* State: the fields of the engine, the value the last call returned, the  *)
(* last call, and history of the session in progress.                      *)
(***************************************************************************)
VARIABLES grid_size, snap_threshold, constraints, active_guides, current_transform,
          ret, lastOp, startArgs, startCfg, firstUpd, lastUpd, nUpd, nMut,
          wasm, wasmRet, wasmOp, wasmBefore

engineVars == <<grid_size, snap_threshold, constraints, active_guides, current_transform>>

histVars == <<startArgs, startCfg, firstUpd, lastUpd, nUpd>>

\* the wasm-facing engine, the value its last call returned, its last call,
\* and the engine as it was before the start that only updates have followed
wasmVars == <<wasm, wasmRet, wasmOp, wasmBefore>>

coreVars == <<grid_size, snap_threshold, constraints, active_guides, current_transform,
              ret, lastOp, startArgs, startCfg, firstUpd, lastUpd, nUpd, nMut>>

vars == <<grid_size, snap_threshold, constraints, active_guides, current_transform,
          ret, lastOp, startArgs, startCfg, firstUpd, lastUpd, nUpd, nMut,
          wasm, wasmRet, wasmOp, wasmBefore>>

Eng == [grid_size |-> grid_size,
        snap_threshold |-> snap_threshold,
        constraints |-> constraints,
        active_guides |-> active_guides,
        current_transform |-> current_transform]

Cfg == [constraints |-> constraints, grid_size |-> grid_size]

\* no call has been made on a transform.rs engine: its history is empty
InitHistory ==
    /\ ret = RetUnit
    /\ lastOp = [op |-> "new", point |-> NoPoint]
    /\ startArgs = None
    /\ startCfg = None
    /\ firstUpd = None
    /\ lastUpd = None
    /\ nUpd = 0
    /\ nMut = 0

\* the call the wasm-facing engine records before any is made
WasmCall(op, element_ids, action_type, origin, delta, elements, scale) ==
    [op |-> op, element_ids |-> element_ids, action_type |-> action_type,
     origin |-> origin, delta |-> delta, elements |-> elements, scale |-> scale]

WasmNoCall == WasmCall("new", <<>>, "Translate", NoPoint, TransformIdentity, <<>>, NoPoint)

InitWasm ==
    /\ wasm = WasmEngineNew
    /\ wasmRet = WasmUnit
    /\ wasmOp = WasmNoCall
    /\ wasmBefore = None

InitCore ==
    /\ grid_size = TransformEngineNew.grid_size
    /\ snap_threshold = TransformEngineNew.snap_threshold
    /\ constraints = TransformEngineNew.constraints
    /\ active_guides = TransformEngineNew.active_guides
    /\ current_transform = TransformEngineNew.current_transform
    /\ InitHistory

Init ==
    /\ InitCore
    /\ InitWasm

\* the call op(point) returned r.ret and left the engine as r.self
Do(op, point, r) ==
    /\ grid_size' = r.self.grid_size
    /\ snap_threshold' = r.self.snap_threshold
    /\ constraints' = r.self.constraints
    /\ active_guides' = r.self.active_guides
    /\ current_transform' = r.self.current_transform
    /\ ret' = r.ret
    /\ lastOp' = [op |-> op, point |-> point]
    /\ UNCHANGED wasmVars

\* the history is that of the session in progress or just ended: a call made
\* when no session is in progress forgets it
KeepHistory ==
    IF current_transform = None
    THEN /\ startArgs' = None
         /\ startCfg' = None
         /\ firstUpd' = None
         /\ lastUpd' = None
         /\ nUpd' = 0
    ELSE UNCHANGED histVars

\* the handles tried by a start; while a session is in progress the call is
\* rejected before it reads the handle
HandlesTried == IF current_transform = None THEN StartHandles ELSE {"Center", "TopLeft"}

StartTransformWith(element_ids, handle_type, start_point, element_bounds) ==
    LET r == start_transform(Eng, element_ids, handle_type, start_point, element_bounds)
    IN  /\ Do("start_transform", start_point, r)
        /\ IF r.ret = RetOk
           THEN /\ startArgs' = Some([element_ids |-> element_ids,
                                      handle_type |-> handle_type,
                                      start_point |-> start_point,
                                      element_bounds |-> element_bounds])
                /\ startCfg' = Some(Cfg)
                /\ firstUpd' = None
                /\ lastUpd' = None
                /\ nUpd' = 0
           ELSE KeepHistory
        /\ UNCHANGED nMut

StartTransform ==
    \E element_ids \in ElementIdLists, handle_type \in HandlesTried,
       start_point \in StartPoints, element_bounds \in ElementBoundsMaps :
        StartTransformWith(element_ids, handle_type, start_point, element_bounds)

\* the angles update_transform takes are whole eighths of a turn and their
\* difference is a whole number of quarter turns
AnglesRepresentable(session, current_point) ==
    LET sy == RSub(session.start_point.y, session.origin.y)
        sx == RSub(session.start_point.x, session.origin.x)
        cy == RSub(current_point.y, session.origin.y)
        cx == RSub(current_point.x, session.origin.x)
    IN  /\ DirRepresentable(sy, sx)
        /\ DirRepresentable(cy, cx)
        /\ (Atan2E(cy, cx) - Atan2E(sy, sx)) % 2 = 0

UpdateTransformAt(current_point, max_updates) ==
    LET r == update_transform(Eng, current_point)
    IN  /\ current_transform # None => nUpd < max_updates
        /\ (/\ current_transform # None
            /\ current_transform[1].handle_type = "Rotation"
            /\ ~is_constraint_enabled(Eng, "LockRotation"))
           => AnglesRepresentable(current_transform[1], current_point)
        /\ Do("update_transform", current_point, r)
        /\ IF current_transform # None
           THEN /\ firstUpd' = IF firstUpd = None
                               THEN Some([point |-> current_point, cfg |-> Cfg,
                                          map |-> r.ret.map])
                               ELSE firstUpd
                /\ lastUpd' = Some(r.ret.map)
                /\ nUpd' = nUpd + 1
                /\ UNCHANGED <<startArgs, startCfg>>
           ELSE KeepHistory
        /\ UNCHANGED nMut

UpdateTransform ==
    \E current_point \in CurrentPoints : UpdateTransformAt(current_point, MaxUpdates)

FinishTransform ==
    /\ Do("finish_transform", NoPoint, finish_transform(Eng))
    /\ KeepHistory
    /\ UNCHANGED nMut

CancelTransform ==
    /\ Do("cancel_transform", NoPoint, cancel_transform(Eng))
    /\ KeepHistory
    /\ UNCHANGED nMut

SetConstraint ==
    \E constraint_type \in ConstraintType, enabled \in BOOLEAN :
        /\ nMut < MaxMutations
        /\ Do("set_constraint", NoPoint, set_constraint(Eng, constraint_type, enabled))
        /\ KeepHistory
        /\ nMut' = nMut + 1

SetGridSize ==
    \E size \in GridSizes :
        /\ nMut < MaxMutations
        /\ Do("set_grid_size", NoPoint, set_grid_size(Eng, size))
        /\ KeepHistory
        /\ nMut' = nMut + 1

SetSnapThreshold ==
    \E threshold \in SnapThresholds :
        /\ nMut < MaxMutations
        /\ Do("set_snap_threshold", NoPoint, set_snap_threshold(Eng, threshold))
        /\ KeepHistory
        /\ nMut' = nMut + 1

AddAlignmentGuide ==
    \E orientation \in Orientation, position \in GuidePositions :
        /\ nMut < MaxMutations
        /\ Len(active_guides) < MaxGuides
        /\ Do("add_alignment_guide", NoPoint,
              add_alignment_guide(Eng, orientation, position, <<1>>))
        /\ KeepHistory
        /\ nMut' = nMut + 1

RemoveAlignmentGuide ==
    \E guide_id \in 0..MaxGuides :
        /\ nMut < MaxMutations
        /\ Do("remove_alignment_guide", NoPoint, remove_alignment_guide(Eng, guide_id))
        /\ KeepHistory
        /\ nMut' = nMut + 1

ClearAlignmentGuides ==
    /\ nMut < MaxMutations
    /\ Do("clear_alignment_guides", NoPoint, clear_alignment_guides(Eng))
    /\ KeepHistory
    /\ nMut' = nMut + 1

Next ==
    \/ StartTransform
    \/ UpdateTransform
    \/ FinishTransform
    \/ CancelTransform
    \/ SetConstraint
    \/ SetGridSize
    \/ SetSnapThreshold
    \/ AddAlignmentGuide
    \/ RemoveAlignmentGuide
    \/ ClearAlignmentGuides

Spec == Init /\ [][Next]_vars

(***************************************************************************)
(* The wasm-facing engine: its callers' inputs, its calls and its          *)
(* specification.                                                          *)
(***************************************************************************)
TransformActionType == {"Translate", "Scale", "Rotate", "Skew"}

WasmActionTypes == {"Translate", "Scale"}

WasmIdLists == {<<"a">>, <<"a", "b">>}

WasmOrigins == {PtI(0, 0), PtI(4, 2)}

WasmDeltas == {Transform(R(3), R(-1), R(1), R(1), 0, R(0), R(0)),
               Transform(R(0), R(0), R(2), Rat(1, 2), 2, R(0), R(0))}

ElementI == VectorElement("a", TransformIdentity, BoundingBox(R(0), R(0), R(8), R(8)))

ElementT == VectorElement("b", Transform(R(3), R(4), R(2), R(2), 0, R(0), R(0)),
                          BoundingBox(R(2), R(2), R(4), R(4)))

WasmElementLists == {<<ElementI>>, <<ElementI, ElementT>>}

WasmScales == {Pt(R(1), R(1)), Pt(R(2), Rat(1, 2)), Pt(R(-1), R(3))}

WasmGrids == {[enabled |-> TRUE, size |-> R(10), snap |-> TRUE],
              [enabled |-> FALSE, size |-> R(20), snap |-> FALSE]}

\* the call recorded in op returned r.ret and left the engine as r.self
WasmDo(op, r, before) ==
    /\ wasm' = r.self
    /\ wasmRet' = r.ret
    /\ wasmOp' = op
    /\ wasmBefore' = before
    /\ UNCHANGED coreVars

WasmStartTransform ==
    \E element_ids \in WasmIdLists, action_type \in WasmActionTypes, origin \in WasmOrigins :
        WasmDo(WasmCall("start_transform", element_ids, action_type, origin,
                        TransformIdentity, <<>>, NoPoint),
               wasm_start_transform(wasm, element_ids, action_type, origin),
               Some(wasm))

WasmUpdateTransform ==
    \E delta \in WasmDeltas, elements \in WasmElementLists :
        WasmDo(WasmCall("update_transform", <<>>, "Translate", NoPoint, delta, elements, NoPoint),
               wasm_update_transform(wasm, delta, elements),
               wasmBefore)

WasmEndTransform ==
    WasmDo(WasmCall("end_transform", <<>>, "Translate", NoPoint, TransformIdentity, <<>>, NoPoint),
           end_transform(wasm),
           None)

WasmCancelTransform ==
    WasmDo(WasmCall("cancel_transform", <<>>, "Translate", NoPoint, TransformIdentity, <<>>,
                    NoPoint),
           wasm_cancel_transform(wasm),
           None)

WasmSetGrid ==
    \E grid \in WasmGrids :
        WasmDo(WasmCall("set_grid", <<>>, "Translate", NoPoint, TransformIdentity, <<>>, NoPoint),
               set_grid(wasm, grid.enabled, grid.size, grid.snap),
               None)

WasmScaleElement ==
    \E element \in {ElementI, ElementT}, scale \in WasmScales, origin \in WasmOrigins :
        WasmDo(WasmCall("scale_element", <<>>, "Scale", origin, TransformIdentity,
                        <<element>>, scale),
               Res(wasm, WasmRet("Element", <<scale_element(element, scale, origin)>>,
                                 <<>>, None)),
               None)

NextWasm ==
    \/ WasmStartTransform
    \/ WasmUpdateTransform
    \/ WasmEndTransform
    \/ WasmCancelTransform
    \/ WasmSetGrid
    \/ WasmScaleElement

SpecWasm == Init /\ [][NextWasm]_vars

(***************************************************************************)
(* The guide stores of the two engines at the end of a session.  The store *)
(* of transform.rs is filled by add_alignment_guide; engine.rs has no      *)
(* method that fills its store, so clear_temporary_guides is applied to    *)
(* lists drawn from a bounded set.                                         *)
(***************************************************************************)
MaxWasmGuides == 3

WasmGuideAt(i, temporary) ==
    WasmGuide(i, IF i % 2 = 0 THEN "Horizontal" ELSE "Vertical", R(10 * i), <<"a">>, temporary)

WasmGuideLists ==
    UNION {{[i \in 1..n |-> WasmGuideAt(i, flags[i])] : flags \in [1..n -> BOOLEAN]} :
               n \in 0..MaxWasmGuides}

\* the store after two calls of add_alignment_guide
TwoGuides ==
    add_alignment_guide(
        add_alignment_guide(TransformEngineNew, "Horizontal", R(4), <<1>>).self,
        "Vertical", R(6), <<1, 2>>).self.active_guides

CoreGuideLists == {<<>>, SubSeq(TwoGuides, 1, 1), TwoGuides}

InitGuides ==
    /\ grid_size = TransformEngineNew.grid_size
    /\ snap_threshold = TransformEngineNew.snap_threshold
    /\ constraints = TransformEngineNew.constraints
    /\ active_guides \in CoreGuideLists
    /\ current_transform = TransformEngineNew.current_transform
    /\ InitHistory
    /\ wasm \in {[WasmEngineNew EXCEPT !.alignment_guides = guides] : guides \in WasmGuideLists}
    /\ wasmRet = WasmUnit
    /\ wasmOp = WasmNoCall
    /\ wasmBefore = None

GuidesStartTransform ==
    \E handle_type \in {"Center", "TopLeft"} :
        StartTransformWith(<<1>>, handle_type, PtI(8, 8), [id \in {1} |-> StateA])

GuidesWasmStartTransform ==
    WasmDo(WasmCall("start_transform", <<"a">>, "Translate", NoPoint,
                    TransformIdentity, <<>>, NoPoint),
           wasm_start_transform(wasm, <<"a">>, "Translate", NoPoint),
           Some(wasm))

NextGuides ==
    \/ GuidesStartTransform
    \/ FinishTransform
    \/ CancelTransform
    \/ GuidesWasmStartTransform
    \/ WasmEndTransform
    \/ WasmCancelTransform

SpecGuides == InitGuides /\ [][NextGuides]_vars

(***************************************************************************)
(* One drag of transform.rs with every handle, under every setting of the  *)
(* constraints set_constraint can reach: a start as the first call, then   *)
(* updates and a cancel.                                                   *)
(***************************************************************************)
MaxDragUpdates == 1

StateC == [transform |-> Mat(R(1), R(0), R(0), R(3), R(-2), R(5)),
           bounds |-> Bnd(PtI(10, 4), PtI(12, 14))]

DragBoundsMaps == {[id \in {1, 2} |-> IF id = 1 THEN StateA ELSE StateB],
                   [id \in {1, 2, 3} |-> CASE id = 1 -> StateA [] id = 2 -> StateB
                                           [] OTHER -> StateC]}

DragIdLists == {<<1>>, <<2>>, <<1, 2>>}

\* the last start point is 1/20000 to the right of x = 8: nearer than 1e-4
DragStartPoints == {PtI(8, 8), PtI(0, 0), PtI(2, 4), Pt(Rat(160001, 20000), R(8))}

DragCurrentPoints == {PtI(4, 8), PtI(0, 0), PtI(16, 16), PtI(12, -4), PtI(0, 4)}

\* the settings set_constraint reaches from those of new()
DragConstraints ==
    {[t \in DOMAIN TransformEngineNew.constraints |-> Constraint(t, t \in enabled)] :
        enabled \in SUBSET DOMAIN TransformEngineNew.constraints}

\* the grid size of new() and one set_grid_size reaches from it
DragGridSizes == {TransformEngineNew.grid_size, R(20)}

InitDrag ==
    /\ grid_size \in DragGridSizes
    /\ snap_threshold = TransformEngineNew.snap_threshold
    /\ constraints \in DragConstraints
    /\ active_guides = TransformEngineNew.active_guides
    /\ current_transform = TransformEngineNew.current_transform
    /\ InitHistory
    /\ InitWasm

DragStartTransform ==
    \E element_ids \in DragIdLists, handle_type \in HandleType,
       start_point \in DragStartPoints, element_bounds \in DragBoundsMaps :
        /\ lastOp.op = "new"
        /\ StartTransformWith(element_ids, handle_type, start_point, element_bounds)

DragUpdateTransform ==
    \E current_point \in DragCurrentPoints :
        /\ current_transform # None
        /\ UpdateTransformAt(current_point, MaxDragUpdates)

DragCancelTransform ==
    /\ current_transform # None
    /\ CancelTransform

NextDrag ==
    \/ DragStartTransform
    \/ DragUpdateTransform
    \/ DragCancelTransform

SpecDrag == InitDrag /\ [][NextDrag]_vars

(***************************************************************************)
(* Calls that leave the session alone: the constraint setter and query,    *)
(* the handles of both engines, their hit tests and their cursors.  lastOp *)
(* records the last call of either engine with its arguments, ret the      *)
(* value it returned.                                                      *)
(***************************************************************************)
\* bounds wide enough to keep the hit boxes apart, and bounds too small for it
HandleBoundsInputs == {Bnd(PtI(0, 0), PtI(24, 20)),
                       Bnd(PtI(0, 0), PtI(6, 6)),
                       Bnd(PtI(-10, 30), PtI(30, 70))}

\* a pointer is on a handle, inside its hit box off the centre, or beside it
PointOffsets == {Pt(R(0), R(0)), Pt(Rat(7, 2), Rat(-7, 2)), Pt(R(5), R(0))}

\* the same, and pointers on the edge of the hit box at zoom 1 and at zoom 2
WasmPointOffsets == {Pt(R(0), R(0)), Pt(R(4), R(4)), Pt(R(-2), R(0)), Pt(R(5), R(0))}

PointsNear(positions, offsets) ==
    {Pt(RAdd(p.x, o.x), RAdd(p.y, o.y)) : p \in positions, o \in offsets}

Reverse(q) == [i \in 1..Len(q) |-> q[Len(q) + 1 - i]]

\* the lists a caller passes to a hit test: the generated one, in either order
GivenLists(generated) == {generated, Reverse(generated)}

Selection(bounds) == [elements |-> <<>>, bounds |-> bounds, transform |-> TransformIdentity]

SelectionInputs == {Selection(BoundingBox(R(0), R(0), R(24), R(20))),
                    Selection(BoundingBox(R(-10), R(30), R(6), R(6)))}

WasmViewports == {WasmEngineNew.viewport, [WasmEngineNew.viewport EXCEPT !.zoom = R(2)]}

\* the call of the transform.rs engine returned r.ret and left it as r.self
CoreCall(call, r) ==
    /\ grid_size' = r.self.grid_size
    /\ snap_threshold' = r.self.snap_threshold
    /\ constraints' = r.self.constraints
    /\ active_guides' = r.self.active_guides
    /\ current_transform' = r.self.current_transform
    /\ ret' = r.ret
    /\ lastOp' = call
    /\ UNCHANGED <<histVars, nMut, wasmVars>>

\* the call of the engine.rs engine returned value and left it as self
WasmSideCall(call, self, value) ==
    /\ wasm' = self
    /\ ret' = RetValue(call.op, value)
    /\ lastOp' = call
    /\ UNCHANGED <<engineVars, histVars, nMut, wasmRet, wasmOp, wasmBefore>>

CallSetConstraint ==
    \E constraint_type \in ConstraintType, enabled \in BOOLEAN :
        CoreCall([op |-> "set_constraint", point |-> NoPoint,
                  constraint_type |-> constraint_type, enabled |-> enabled],
                 set_constraint(Eng, constraint_type, enabled))

CallIsConstraintEnabled ==
    \E constraint_type \in ConstraintType :
        CoreCall([op |-> "is_constraint_enabled", point |-> NoPoint,
                  constraint_type |-> constraint_type],
                 Res(Eng, RetValue("is_constraint_enabled",
                                   is_constraint_enabled(Eng, constraint_type))))

CallCalculateHandles ==
    \E bounds \in HandleBoundsInputs :
        CoreCall([op |-> "calculate_handles", point |-> NoPoint, bounds |-> bounds],
                 Res(Eng, RetValue("calculate_handles", calculate_handles(Eng, bounds))))

CallHitTestHandle ==
    \E bounds \in HandleBoundsInputs :
        LET generated == calculate_handles(Eng, bounds)
            positions == {generated[i].position : i \in 1..Len(generated)}
        IN  \E handles \in GivenLists(generated), point \in PointsNear(positions, PointOffsets) :
                CoreCall([op |-> "hit_test_handle", point |-> point, handles |-> handles],
                         Res(Eng, RetValue("hit_test_handle",
                                           hit_test_handle(Eng, point, handles))))

CallCursorForHandle ==
    \E handle_type \in HandleType :
        CoreCall([op |-> "cursor_for_handle", point |-> NoPoint, handle_type |-> handle_type],
                 Res(Eng, RetValue("cursor_for_handle", cursor_for_handle(Eng, handle_type))))

CallSetViewport ==
    \E viewport \in WasmViewports :
        WasmSideCall([op |-> "set_viewport", point |-> NoPoint, viewport |-> viewport],
                     set_viewport(wasm, viewport).self, <<>>)

CallGenerateSelectionHandles ==
    \E selection \in SelectionInputs :
        WasmSideCall([op |-> "generate_selection_handles", point |-> NoPoint,
                      selection |-> selection],
                     wasm, generate_selection_handles(wasm, selection))

CallGetHandleAtPoint ==
    \E selection \in SelectionInputs :
        LET generated == generate_selection_handles(wasm, selection)
            positions == {generated[i].position : i \in 1..Len(generated)}
        IN  \E handles \in GivenLists(generated),
               point \in PointsNear(positions, WasmPointOffsets) :
                WasmSideCall([op |-> "get_handle_at_point", point |-> point,
                              handles |-> handles],
                             wasm, get_handle_at_point(wasm, handles, point))

NextHandles ==
    \/ CallCalculateHandles
    \/ CallHitTestHandle
    \/ CallCursorForHandle
    \/ CallSetViewport
    \/ CallGenerateSelectionHandles
    \/ CallGetHandleAtPoint

SpecHandles == Init /\ [][NextHandles]_vars

\* the constraint setter and the query, alone
NextConstraints ==
    \/ CallSetConstraint
    \/ CallIsConstraintEnabled

SpecConstraints == Init /\ [][NextConstraints]_vars

(***************************************************************************)
(* Alignment and point snapping of the engine.rs engine.  A call may be    *)
(* given what the call before it returned: again marks such a call.        *)
(***************************************************************************)
ElementP == VectorElement("p", TransformIdentity, BoundingBox(R(0), R(0), R(50), R(10)))

ElementQ == VectorElement("q", TransformIdentity, BoundingBox(R(100), R(20), R(50), R(30)))

AlignElementLists == {<<>>, <<ElementT>>, <<ElementP>>, <<ElementP, ElementQ>>,
                      <<ElementI, ElementT>>, <<ElementQ, ElementI, ElementP>>}

\* the six modes and a string that is none of them
AlignmentInputs == AlignmentModes \cup {"justify"}

SnapGrids == {[enabled |-> enabled, size |-> size, snap |-> snap] :
                 enabled \in BOOLEAN, size \in {R(0), R(10), R(20)}, snap \in BOOLEAN}

\* points off the grid, halfway between two grid lines, and on the grid
SnapPoints == {PtI(3, 4), PtI(5, -5), PtI(13, -27), PtI(10, 20), Pt(Rat(7, 2), R(15))}

CallSetGrid ==
    \E grid \in SnapGrids :
        WasmSideCall([op |-> "set_grid", point |-> NoPoint, grid |-> grid],
                     set_grid(wasm, grid.enabled, grid.size, grid.snap).self, <<>>)

CallSnapToGrid ==
    \E again \in BOOLEAN :
        /\ again => (lastOp.op = "snap_to_grid" /\ ~lastOp.again)
        /\ \E point \in IF again THEN {ret.value} ELSE SnapPoints :
               WasmSideCall([op |-> "snap_to_grid", point |-> point, again |-> again],
                            wasm, wasm_snap_to_grid(wasm, point))

CallAlignElements ==
    \E again \in BOOLEAN, alignment \in AlignmentInputs :
        /\ again => (/\ lastOp.op = "align_elements"
                     /\ ~lastOp.again
                     /\ lastOp.alignment = alignment)
        /\ \E elements \in IF again THEN {ret.value} ELSE AlignElementLists :
               WasmSideCall([op |-> "align_elements", point |-> NoPoint,
                             elements |-> elements, alignment |-> alignment,
                             again |-> again],
                            wasm, align_elements(elements, alignment))

NextAlign ==
    \/ CallSetGrid
    \/ CallSnapToGrid
    \/ CallAlignElements

SpecAlign == Init /\ [][NextAlign]_vars

(***************************************************************************)
(* The guide store of the transform.rs engine and the snapping of a point  *)
(* to it: guides are added, removed and cleared, the threshold and the     *)
(* snap-to-object constraint are set, and points are snapped.              *)
(***************************************************************************)
MaxStoredGuides == 2

StoredGuidePositions == {R(4), R(20)}

SnapThresholdInputs == {R(2), TransformEngineNew.snap_threshold}

\* pointers nearer to a guide than the threshold, exactly the threshold away
\* from one, and away from both
GuideSnapPoints == {PtI(6, 18), PtI(0, 0), PtI(30, 9), PtI(12, 12)}

\* no candidate, and a candidate with edges near the first pointer
CandidateBounds == {<<>>, <<Bnd(PtI(5, 17), PtI(9, 23))>>}

SnapAddGuide ==
    \E orientation \in Orientation, position \in StoredGuidePositions :
        /\ Len(active_guides) < MaxStoredGuides
        /\ CoreCall([op |-> "add_alignment_guide", point |-> NoPoint,
                     orientation |-> orientation, position |-> position],
                    add_alignment_guide(Eng, orientation, position, <<1>>))

SnapRemoveGuide ==
    \E guide_id \in 0..MaxStoredGuides :
        CoreCall([op |-> "remove_alignment_guide", point |-> NoPoint, guide_id |-> guide_id],
                 remove_alignment_guide(Eng, guide_id))

SnapClearGuides ==
    CoreCall([op |-> "clear_alignment_guides", point |-> NoPoint],
             clear_alignment_guides(Eng))

SnapSetThreshold ==
    \E threshold \in SnapThresholdInputs :
        CoreCall([op |-> "set_snap_threshold", point |-> NoPoint, threshold |-> threshold],
                 set_snap_threshold(Eng, threshold))

SnapSetObjectSnap ==
    \E enabled \in BOOLEAN :
        CoreCall([op |-> "set_constraint", point |-> NoPoint,
                  constraint_type |-> "SnapToObject", enabled |-> enabled],
                 set_constraint(Eng, "SnapToObject", enabled))

CallSnapPointToGuides ==
    \E point \in GuideSnapPoints, element_bounds \in CandidateBounds :
        CoreCall([op |-> "snap_point_to_guides", point |-> point,
                  element_bounds |-> element_bounds],
                 Res(Eng, RetValue("snap_point_to_guides",
                                   snap_point_to_guides(Eng, point, element_bounds))))

NextSnap ==
    \/ SnapAddGuide
    \/ SnapRemoveGuide
    \/ SnapClearGuides
    \/ SnapSetThreshold
    \/ SnapSetObjectSnap
    \/ CallSnapPointToGuides

SpecSnap == Init /\ [][NextSnap]_vars

\* the position of the handle of this type on bounds
HandlePosition(handle_type, bounds) ==
    LET left == bounds.min.x
        right == bounds.max.x
        top == bounds.min.y
        bottom == bounds.max.y
        center_x == Half(left, right)
        center_y == Half(top, bottom)
    IN  CASE handle_type = "TopLeft" -> Pt(left, top)
          [] handle_type = "TopCenter" -> Pt(center_x, top)
          [] handle_type = "TopRight" -> Pt(right, top)
          [] handle_type = "MiddleLeft" -> Pt(left, center_y)
          [] handle_type = "MiddleRight" -> Pt(right, center_y)
          [] handle_type = "BottomLeft" -> Pt(left, bottom)
          [] handle_type = "BottomCenter" -> Pt(center_x, bottom)
          [] handle_type = "BottomRight" -> Pt(right, bottom)
          [] handle_type = "Center" -> Pt(center_x, center_y)
          [] OTHER -> Pt(center_x, RSub(top, R(20)))

(***************************************************************************)
(* History read by the properties.                                         *)
(***************************************************************************)
\* a session was in progress when the last call was made
DuringSession == startArgs # None

\* the transforms supplied as snapshots to the start of the session
SuppliedTransforms ==
    [id \in DOMAIN startArgs[1].element_bounds |->
        startArgs[1].element_bounds[id].transform]

\* the session as start_transform created it
SessionAtStart ==
    NewSession(startArgs[1].element_ids, startArgs[1].handle_type,
               startArgs[1].start_point, startArgs[1].element_bounds)

(***************************************************************************)
(* Properties.                                                             *)
(***************************************************************************)

\* C1: after every start_transform that succeeds is_transforming() is true,
\* and after every finish_transform or cancel_transform it is false, whatever
\* updates were made in between.
C1_ActiveFromStartToEnd ==
    /\ (lastOp.op = "start_transform" /\ ret = RetOk) => is_transforming(Eng)
    /\ lastOp.op \in {"finish_transform", "cancel_transform"} => ~is_transforming(Eng)

C1_Witness ==
    /\ lastOp.op = "finish_transform"
    /\ DuringSession
    /\ nUpd = MaxUpdates
    /\ ~is_transforming(Eng)

\* C2: start_transform called while a session is in progress returns
\* AlreadyTransforming whatever its arguments and leaves the session (element
\* ids, start point, origin, handle, snapshots, current transforms) unchanged.
C2_StartWhileActiveRejected ==
    [][(current_transform # None /\ lastOp'.op = "start_transform")
         => (ret' = RetErr("AlreadyTransforming") /\ current_transform' = current_transform)]_vars

C2_Witness ==
    /\ lastOp.op = "start_transform"
    /\ ret = RetErr("AlreadyTransforming")
    /\ current_transform # None
    /\ lastUpd # None
    /\ current_transform[1].current_transforms = lastUpd[1]

\* C3: from the Idle state start_transform with an empty id list returns
\* InvalidParameters, and with an id that has no snapshot UnknownElement; in
\* both cases the engine is left as it was: Idle, with the same constraints,
\* guides, grid size and snap threshold.
C3_FailedStartLeavesEngine ==
    current_transform = None =>
        \A element_ids \in ElementIdLists, handle_type \in HandleType,
           start_point \in StartPoints, element_bounds \in ElementBoundsMaps :
            LET r == start_transform(Eng, element_ids, handle_type, start_point,
                                     element_bounds)
            IN  /\ element_ids = <<>> =>
                       r = Res(Eng, RetErr("InvalidParameters"))
                /\ (/\ element_ids # <<>>
                    /\ ~(SeqRange(element_ids) \subseteq DOMAIN element_bounds)) =>
                       r = Res(Eng, RetErr("UnknownElement"))

C3_Witness ==
    /\ lastOp.op = "start_transform"
    /\ ret = RetErr("UnknownElement")
    /\ current_transform = None
    /\ active_guides # <<>>

\* C4: cancel_transform called while a session is in progress returns, for
\* every element, the transform supplied as its snapshot at start_transform,
\* however many updates were made in between.
C4_CancelReturnsSnapshots ==
    (lastOp.op = "cancel_transform" /\ DuringSession) => ret = RetSome(SuppliedTransforms)

C4_Witness ==
    /\ lastOp.op = "cancel_transform"
    /\ DuringSession
    /\ nUpd = MaxUpdates
    /\ \E id \in DOMAIN lastUpd[1] : lastUpd[1][id] # SuppliedTransforms[id]
    /\ ret = RetSome(SuppliedTransforms)

\* C5: finish_transform called while a session is in progress returns the
\* map the most recent update_transform of the session returned, or the
\* snapshot transforms when no update was made, and leaves the engine Idle.
C5_FinishReturnsLastUpdate ==
    (lastOp.op = "finish_transform" /\ DuringSession) =>
        /\ ret = RetSome(IF lastUpd # None THEN lastUpd[1] ELSE SuppliedTransforms)
        /\ current_transform = None

C5_Witness ==
    /\ lastOp.op = "finish_transform"
    /\ DuringSession
    /\ lastUpd # None
    /\ \E id \in DOMAIN lastUpd[1] : lastUpd[1][id] # SuppliedTransforms[id]
    /\ ret = RetSome(lastUpd[1])

\* C6 as stated: two calls of update_transform with the same current_point in
\* one session return identical maps, whatever was called between them.
C6_SamePointSameResult ==
    (/\ lastOp.op = "update_transform"
     /\ DuringSession
     /\ nUpd >= 2
     /\ firstUpd[1].point = lastOp.point)
    => ret = RetSome(firstUpd[1].map)

\* C6 amended: two calls of update_transform with the same current_point in
\* one session return identical maps whatever was called between them,
\* provided the constraints and the grid size are the same at both calls.
C6_SamePointSameSettingsSameResult ==
    (/\ lastOp.op = "update_transform"
     /\ DuringSession
     /\ nUpd >= 2
     /\ firstUpd[1].point = lastOp.point
     /\ firstUpd[1].cfg = Cfg)
    => ret = RetSome(firstUpd[1].map)

C6_Witness ==
    /\ lastOp.op = "update_transform"
    /\ DuringSession
    /\ nUpd >= 2
    /\ firstUpd[1].point = lastOp.point
    /\ firstUpd[1].cfg = Cfg
    /\ nMut > 0
    /\ \E id \in DOMAIN ret.map : ret.map[id] # SuppliedTransforms[id]
    /\ ret = RetSome(firstUpd[1].map)

\* C7: with the constraints and the grid size as they were at start_transform,
\* update_transform(p) returns, after any earlier updates of the session, what
\* update_transform(p) returns when called immediately after start_transform.
C7_UpdateFromInitialSnapshot ==
    (/\ lastOp.op = "update_transform"
     /\ DuringSession
     /\ startCfg[1] = Cfg)
    => ret = update_transform([Eng EXCEPT !.current_transform = Some(SessionAtStart)],
                              lastOp.point).ret

C7_Witness ==
    /\ lastOp.op = "update_transform"
    /\ DuringSession
    /\ startCfg[1] = Cfg
    /\ nUpd = MaxUpdates
    /\ firstUpd[1].point # lastOp.point
    /\ firstUpd[1].map # ret.map
    /\ \E id \in DOMAIN ret.map : ret.map[id] # SuppliedTransforms[id]

\* C8: a session in progress stays in progress until finish_transform or
\* cancel_transform is called; no other call turns the engine Idle.
C8_OnlyFinishAndCancelEnd ==
    [][(current_transform # None
        /\ lastOp'.op \notin {"finish_transform", "cancel_transform"})
         => current_transform' # None]_vars

C8_Witness ==
    /\ current_transform # None
    /\ lastOp.op = "update_transform"
    /\ nUpd = MaxUpdates
    /\ nMut > 0

\* the part of a session that start_transform fixes
Snapshot(session) == [session EXCEPT !.current_transforms = EmptyMap]

\* C9: while a session is in progress no call changes its snapshots, element
\* ids, start point, origin or handle; update_transform changes only the
\* current transforms.
C9_SnapshotsImmutable ==
    [][(current_transform # None /\ current_transform' # None)
         => /\ Snapshot(current_transform'[1]) = Snapshot(current_transform[1])
            /\ lastOp'.op = "update_transform" =>
                   UNCHANGED <<grid_size, snap_threshold, constraints, active_guides>>]_vars

C9_Witness ==
    /\ current_transform # None
    /\ lastOp.op = "update_transform"
    /\ nUpd = MaxUpdates
    /\ Snapshot(current_transform[1]) = Snapshot(SessionAtStart)
    /\ current_transform[1].current_transforms # SessionAtStart.current_transforms

\* C10: when no session is in progress update_transform, finish_transform
\* and cancel_transform return None, which is not a transform map, and leave
\* the engine Idle with its constraints, guides, grid size and snap threshold.
C10_IdleCallsDoNothing ==
    [][(current_transform = None
        /\ lastOp'.op \in {"update_transform", "finish_transform", "cancel_transform"})
         => (ret' = RetNone /\ ret'.tag # "Some" /\ UNCHANGED engineVars)]_vars

C10_Witness ==
    /\ current_transform = None
    /\ lastOp.op = "cancel_transform"
    /\ ~DuringSession
    /\ ret = RetNone
    /\ active_guides # <<>>

\* C11: for any start followed by any number of updates and then cancel,
\* with no constraint, guide or grid mutator called in between, the whole
\* state of the engine after the cancel equals its state immediately before
\* the start, and cancel ends the action from every state with an action in
\* progress (stated for the wasm-facing engine).
C11_CancelRestoresStateBeforeStart ==
    [][(wasmOp'.op = "cancel_transform")
         => /\ wasmBefore # None => wasm' = wasmBefore[1]
            /\ wasm'.current_action = None]_vars

\* the place of the guide with this id in a guide store
PlaceOf(guides, id) == CHOOSE i \in 1..Len(guides) : guides[i].id = id

\* C12: when a session ends through finish (end) or cancel, every guide
\* marked temporary is removed from the guide store and every non-temporary
\* guide is kept, in its original order.  The guides of transform.rs carry no
\* temporary mark, so its store is kept as it is.
C12_EndPurgesTemporaryGuides ==
    [][/\ wasmOp'.op \in {"end_transform", "cancel_transform"}
          => LET old == wasm.alignment_guides
                 new == wasm'.alignment_guides
             IN  /\ \A i \in 1..Len(new) : ~new[i].temporary
                 /\ {new[i] : i \in 1..Len(new)}
                      = {old[k] : k \in {j \in 1..Len(old) : ~old[j].temporary}}
                 /\ \A i, j \in 1..Len(new) :
                      i < j => PlaceOf(old, new[i].id) < PlaceOf(old, new[j].id)
       /\ lastOp'.op \in {"finish_transform", "cancel_transform"}
          => active_guides' = active_guides]_vars

C12_Witness ==
    /\ wasmOp.op = "end_transform"
    /\ wasmRet.action # None
    /\ [i \in 1..Len(wasm.alignment_guides) |-> wasm.alignment_guides[i].id] = <<1, 3>>
    /\ lastOp.op = "finish_transform"
    /\ DuringSession
    /\ Len(active_guides) = 2

\* C13: in the wasm-facing engine a start_transform called while an action is
\* in progress does not replace it: the action type, element ids, origin and
\* delta of the action in progress stay the same.
C13_StartKeepsActionInProgress ==
    [][(wasm.current_action # None /\ wasmOp'.op = "start_transform")
         => wasm'.current_action = wasm.current_action]_vars

\* the point of bounds opposite the handle of this type: the handle position
\* mirrored through the centre for the corners and the edges, the centre for
\* the center and the rotation handle
OppositePoint(handle_type, bounds) ==
    LET position == HandlePosition(handle_type, bounds)
    IN  IF handle_type \in CornerOrEdge
        THEN Pt(RSub(RAdd(bounds.min.x, bounds.max.x), position.x),
                RSub(RAdd(bounds.min.y, bounds.max.y), position.y))
        ELSE Pt(Half(bounds.min.x, bounds.max.x), Half(bounds.min.y, bounds.max.y))

\* the last call was an update_transform of the session in progress
Updated ==
    /\ lastOp.op = "update_transform"
    /\ current_transform # None
    /\ ret.tag = "Some"

\* neither axis of the session has its start point within 1e-4 of the origin
NonDegenerate(session) ==
    /\ ~RLt(RAbs(RSub(session.start_point.x, session.origin.x)), Epsilon)
    /\ ~RLt(RAbs(RSub(session.start_point.y, session.origin.y)), Epsilon)

\* the scale factors by which result differs from initial
AppliedScale(result, initial) == Pt(RDiv(result.a, initial.a), RDiv(result.d, initial.d))

\* the quotients (pointer - origin) / (start - origin) of the last update
RawScale(session) ==
    Pt(RDiv(RSub(lastOp.point.x, session.origin.x),
            RSub(session.start_point.x, session.origin.x)),
       RDiv(RSub(lastOp.point.y, session.origin.y),
            RSub(session.start_point.y, session.origin.y)))

\* C14: in a session of a single element the pivot is the point of that
\* element's bounds opposite the dragged handle: the diagonally opposite
\* corner for a corner handle, the midpoint of the opposite edge for an edge
\* handle, the centre for the center and the rotation handle.
C14_SinglePivotOppositeHandle ==
    (current_transform # None /\ Len(current_transform[1].element_ids) = 1)
      => LET session == current_transform[1]
             bounds == startArgs[1].element_bounds[session.element_ids[1]].bounds
         IN  session.origin = OppositePoint(session.handle_type, bounds)

C14_Witness ==
    /\ current_transform # None
    /\ current_transform[1].element_ids = <<1>>
    /\ DOMAIN startArgs[1].element_bounds = {1, 2, 3}
    /\ current_transform[1].handle_type = "MiddleLeft"
    /\ current_transform[1].origin = PtI(6, 4)

\* C15: in a session of several element ids the pivot is the point opposite
\* the dragged handle of the union of the bounds of exactly the selected
\* elements; snapshots supplied for unselected elements do not influence it.
C15_MultiPivotFromSelectedOnly ==
    (current_transform # None /\ Len(current_transform[1].element_ids) > 1)
      => LET session == current_transform[1]
             selected == [id \in SeqRange(session.element_ids)
                             |-> startArgs[1].element_bounds[id]]
         IN  session.origin
               = OppositePoint(session.handle_type, calculate_combined_bounds(selected)[1])

\* the session in progress or just ended is a BottomRight drag of one element
\* whose transform is the identity and whose bounds have their minimum at
\* (0, 0), started off both axes, with every constraint disabled
PlainBottomRightDrag ==
    /\ startArgs # None
    /\ Len(startArgs[1].element_ids) = 1
    /\ LET state == startArgs[1].element_bounds[startArgs[1].element_ids[1]]
       IN  /\ state.transform = MatIdentity
           /\ state.bounds.min = PtI(0, 0)
    /\ startArgs[1].handle_type = "BottomRight"
    /\ ~RLt(RAbs(startArgs[1].start_point.x), Epsilon)
    /\ ~RLt(RAbs(startArgs[1].start_point.y), Epsilon)
    /\ \A t \in ConstraintType : ~is_constraint_enabled(Eng, t)

\* C16: for a single element with identity transform and bounds minimum
\* (0, 0), a BottomRight drag started at s and updated to c with every
\* constraint off and s not degenerate has pivot (0, 0) and yields scale_x =
\* c.x / s.x, scale_y = c.y / s.y with the translation unchanged; cancel then
\* returns the identity for that element.
C16_BottomRightScalesByQuotient ==
    PlainBottomRightDrag
      => LET id == startArgs[1].element_ids[1]
             s == startArgs[1].start_point
             c == lastOp.point
         IN  /\ current_transform # None => current_transform[1].origin = PtI(0, 0)
             /\ Updated
                  => ret.map[id] = Mat(RDiv(c.x, s.x), R(0), R(0), RDiv(c.y, s.y), R(0), R(0))
             /\ lastOp.op = "cancel_transform"
                  => ret.tag = "Some" /\ ret.map[id] = MatIdentity

C16_Witness ==
    /\ PlainBottomRightDrag
    /\ lastOp.op = "cancel_transform"
    /\ firstUpd # None
    /\ firstUpd[1].map[startArgs[1].element_ids[1]]
         = Mat(R(6), R(0), R(0), R(-1), R(0), R(0))
    /\ ret.map[startArgs[1].element_ids[1]] = MatIdentity

\* C17: for every non-degenerate corner or edge update the session pivot is
\* mapped by the resulting transform to the same position as by the initial
\* snapshot transform, for every pivot including pivots off the origin.
C17_PivotStaysFixed ==
    (Updated /\ current_transform[1].handle_type \in CornerOrEdge
             /\ NonDegenerate(current_transform[1]))
      => LET session == current_transform[1]
         IN  \A id \in DOMAIN ret.map :
                 MatApply(ret.map[id], session.origin)
                   = MatApply(session.initial_states[id].transform, session.origin)

\* C18: in the wasm-facing engine scale_element applied to an element whose
\* transform is the identity yields a transform whose transform_point maps
\* the origin of the scaling to that same origin, for every scale and origin.
C18_ScaleElementFixesOrigin ==
    (wasmOp.op = "scale_element" /\ wasmOp.elements[1].transform = TransformIdentity)
      => transform_point(wasmRet.elements[1].transform, wasmOp.origin) = wasmOp.origin

\* C19: with a corner handle and maintain-aspect-ratio enabled the two scale
\* factors applied have equal magnitude, and each keeps the sign of its own
\* quotient, for every pointer position.
C19_AspectRatioEqualMagnitudes ==
    (/\ Updated
     /\ current_transform[1].handle_type
          \in {"TopLeft", "TopRight", "BottomLeft", "BottomRight"}
     /\ is_constraint_enabled(Eng, "MaintainAspectRatio"))
      => LET session == current_transform[1]
             raw == RawScale(session)
         IN  \A id \in DOMAIN ret.map :
                 LET f == AppliedScale(ret.map[id], session.initial_states[id].transform)
                 IN  /\ RAbs(f.x) = RAbs(f.y)
                     /\ (NonDegenerate(session) /\ ~is_constraint_enabled(Eng, "LockScale"))
                          => /\ raw.x # R(0) => Sign(f.x[1]) = Sign(raw.x[1])
                             /\ raw.y # R(0) => Sign(f.y[1]) = Sign(raw.y[1])

C19_Witness ==
    /\ Updated
    /\ current_transform[1].handle_type = "TopRight"
    /\ is_constraint_enabled(Eng, "MaintainAspectRatio")
    /\ is_constraint_enabled(Eng, "SnapToGrid")
    /\ ~is_constraint_enabled(Eng, "LockScale")
    /\ NonDegenerate(current_transform[1])
    /\ LET raw == RawScale(current_transform[1])
       IN  /\ RLt(raw.x, R(0))
           /\ RLt(R(0), raw.y)
           /\ RLt(RAbs(raw.y), RAbs(raw.x))
    /\ \E id \in DOMAIN ret.map :
           LET f == AppliedScale(ret.map[id], current_transform[1].initial_states[id].transform)
           IN  f.x = RSub(R(0), f.y) /\ RLt(R(0), f.y)

\* the factor of the axis perpendicular to an edge handle is left at 1.0 by
\* the last update: the row of that axis is the one of the initial snapshot
PerpendicularAxisKept ==
    LET session == current_transform[1]
    IN  \A id \in DOMAIN ret.map :
            LET result == ret.map[id]
                initial == session.initial_states[id].transform
            IN  /\ session.handle_type \in {"TopCenter", "BottomCenter"}
                     => result.a = initial.a /\ result.c = initial.c
                /\ session.handle_type \in {"MiddleLeft", "MiddleRight"}
                     => result.b = initial.b /\ result.d = initial.d

\* C20 as stated: an edge handle never changes the factor of the
\* perpendicular axis (TopCenter and BottomCenter keep x at 1.0, MiddleLeft
\* and MiddleRight keep y at 1.0), for every pointer position and every
\* setting of the constraints.
C20_EdgeKeepsPerpendicularAxis ==
    Updated => PerpendicularAxisKept

\* C20, amended: an edge handle never changes the factor of the perpendicular
\* axis, for every pointer position and every setting of the constraints in
\* which maintain-aspect-ratio is disabled.
C20_EdgeKeepsPerpendicularAxisUnlessAspect ==
    (Updated /\ ~is_constraint_enabled(Eng, "MaintainAspectRatio")) => PerpendicularAxisKept

C20_Witness ==
    /\ Updated
    /\ current_transform[1].handle_type = "BottomCenter"
    /\ ~is_constraint_enabled(Eng, "MaintainAspectRatio")
    /\ is_constraint_enabled(Eng, "SnapToGrid")
    /\ ~is_constraint_enabled(Eng, "LockScale")
    /\ NonDegenerate(current_transform[1])
    /\ \E id \in DOMAIN ret.map :
           LET result == ret.map[id]
               initial == current_transform[1].initial_states[id].transform
           IN  /\ result.a = initial.a
               /\ RLt(RAbs(initial.d), RAbs(result.d))

\* the last call was an update_transform made while a session was in progress
UpdatedInSession ==
    /\ lastOp.op = "update_transform"
    /\ nUpd > 0

\* transform as update_transform returns it: with its translation snapped
\* when snap-to-grid is enabled
AsReturned(transform) ==
    IF is_constraint_enabled(Eng, "SnapToGrid") THEN snap_to_grid(Eng, transform) ELSE transform

\* the last update returned every element's initial snapshot transform
ReturnedInitial ==
    \A id \in DOMAIN ret.map :
        ret.map[id] = AsReturned(current_transform[1].initial_states[id].transform)

\* C21: when the start point is within the epsilon (1e-4) of the pivot on
\* either axis, a corner- or edge-handle update divides by nothing and leaves
\* every element's transform equal to its initial snapshot transform (before
\* grid snapping); the update returns the transforms, not an error, and the
\* session stays active.
C21_DegenerateKeepsInitial ==
    (UpdatedInSession /\ startArgs[1].handle_type \in CornerOrEdge)
      => /\ current_transform # None
         /\ ~NonDegenerate(current_transform[1])
              => /\ ret.tag = "Some"
                 /\ DOMAIN ret.map # {}
                 /\ ReturnedInitial

C21_Witness ==
    /\ Updated
    /\ nUpd > 0
    /\ current_transform[1].handle_type \in {"BottomLeft", "TopLeft"}
    /\ ~is_constraint_enabled(Eng, "LockScale")
    /\ ~is_constraint_enabled(Eng, "SnapToGrid")
    /\ current_transform[1].start_point.x # current_transform[1].origin.x
    /\ RLt(RAbs(RSub(current_transform[1].start_point.x, current_transform[1].origin.x)),
           Epsilon)
    /\ ~RLt(RAbs(RSub(current_transform[1].start_point.y, current_transform[1].origin.y)),
            R(1))
    /\ lastOp.point # current_transform[1].start_point
    /\ \E id \in DOMAIN ret.map :
           /\ ret.map[id] = current_transform[1].initial_states[id].transform
           /\ ret.map[id] # MatIdentity

\* C22: with the lock-scale constraint enabled an update with any corner or
\* edge handle applies no scaling: every returned transform equals the
\* element's initial snapshot transform (before grid snapping), for every
\* pointer position.
C22_LockScaleKeepsInitial ==
    (/\ UpdatedInSession
     /\ startArgs[1].handle_type \in CornerOrEdge
     /\ constraints["LockScale"].enabled)
      => /\ current_transform # None
         /\ ret.tag = "Some"
         /\ DOMAIN ret.map # {}
         /\ ReturnedInitial

C22_Witness ==
    /\ Updated
    /\ nUpd > 0
    /\ current_transform[1].handle_type \in CornerOrEdge
    /\ constraints["LockScale"].enabled
    /\ ~constraints["SnapToGrid"].enabled
    /\ NonDegenerate(current_transform[1])
    /\ RawScale(current_transform[1]).x # R(1)
    /\ RawScale(current_transform[1]).y # R(1)
    /\ \E id \in DOMAIN ret.map :
           /\ ret.map[id] = current_transform[1].initial_states[id].transform
           /\ ret.map[id] # MatIdentity

\* C23: with the lock-rotation constraint enabled an update with the rotation
\* handle applies no rotation: every returned transform equals the element's
\* initial snapshot transform (before grid snapping), for every pointer
\* position.
C23_LockRotationKeepsInitial ==
    (/\ UpdatedInSession
     /\ startArgs[1].handle_type = "Rotation"
     /\ constraints["LockRotation"].enabled)
      => /\ current_transform # None
         /\ ret.tag = "Some"
         /\ DOMAIN ret.map # {}
         /\ ReturnedInitial

C23_Witness ==
    /\ Updated
    /\ nUpd > 0
    /\ current_transform[1].handle_type = "Rotation"
    /\ constraints["LockRotation"].enabled
    /\ ~constraints["LockScale"].enabled
    /\ ~constraints["SnapToGrid"].enabled
    /\ lastOp.point = PtI(0, 0)
    /\ current_transform[1].start_point = PtI(8, 8)
    /\ current_transform[1].origin = PtI(4, 4)
    /\ \E id \in DOMAIN ret.map :
           /\ ret.map[id] = current_transform[1].initial_states[id].transform
           /\ ret.map[id] # MatIdentity

\* m with its translation moved by the vector v, its other entries kept
Translated(m, v) == Mat(m.a, m.b, m.c, m.d, RAdd(m.tx, v.x), RAdd(m.ty, v.y))

\* C24: with the center handle update_transform(c) yields for every selected
\* element its initial transform translated by exactly c - start_point: the
\* translation grows by that vector (before grid snapping) and the scale and
\* rotation entries are unchanged, whether or not lock-scale, lock-rotation
\* or maintain-aspect-ratio are enabled.
C24_CenterTranslatesByDelta ==
    (UpdatedInSession /\ startArgs[1].handle_type = "Center")
      => /\ current_transform # None
         /\ ret.tag = "Some"
         /\ DOMAIN ret.map = SeqRange(startArgs[1].element_ids)
         /\ LET session == current_transform[1]
                delta == Pt(RSub(lastOp.point.x, startArgs[1].start_point.x),
                            RSub(lastOp.point.y, startArgs[1].start_point.y))
            IN  \A id \in DOMAIN ret.map :
                    LET initial == startArgs[1].element_bounds[id].transform
                    IN  /\ ret.map[id] = AsReturned(Translated(initial, delta))
                        /\ ret.map[id].a = initial.a
                        /\ ret.map[id].b = initial.b
                        /\ ret.map[id].c = initial.c
                        /\ ret.map[id].d = initial.d

C24_Witness ==
    /\ Updated
    /\ nUpd > 0
    /\ current_transform[1].handle_type = "Center"
    /\ constraints["LockScale"].enabled
    /\ constraints["LockRotation"].enabled
    /\ constraints["MaintainAspectRatio"].enabled
    /\ ~constraints["SnapToGrid"].enabled
    /\ startArgs[1].start_point = PtI(2, 4)
    /\ lastOp.point = PtI(12, -4)
    /\ \E id \in DOMAIN ret.map :
           /\ startArgs[1].element_bounds[id].transform = StateA.transform
           /\ ret.map[id] = Mat(R(2), R(0), R(0), R(2), R(13), R(-4))

\* x is a whole multiple of the positive number g
IsMultipleOf(x, g) == RDiv(x, g)[2] = 1

\* no multiple of g is nearer to x than snapped is
NearestMultiple(snapped, x, g) ==
    /\ IsMultipleOf(snapped, g)
    /\ ~RLt(RDiv(g, R(2)), RAbs(RSub(snapped, x)))

\* C25: with snap-to-grid enabled and a positive grid size every transform an
\* update returns has a translation whose x and y are each the nearest
\* multiple of the grid size to the unsnapped translation, and its scale and
\* rotation entries are those of the unsnapped transform.
C25_SnapRoundsTranslationOnly ==
    (/\ Updated
     /\ nUpd > 0
     /\ constraints["SnapToGrid"].enabled
     /\ RLt(R(0), grid_size))
      => \A id \in DOMAIN ret.map :
             LET unsnapped == DeltaTransform(Eng, current_transform[1], id, lastOp.point)
                 result == ret.map[id]
             IN  /\ NearestMultiple(result.tx, unsnapped.tx, grid_size)
                 /\ NearestMultiple(result.ty, unsnapped.ty, grid_size)
                 /\ result.a = unsnapped.a
                 /\ result.b = unsnapped.b
                 /\ result.c = unsnapped.c
                 /\ result.d = unsnapped.d

C25_Witness ==
    /\ Updated
    /\ nUpd > 0
    /\ constraints["SnapToGrid"].enabled
    /\ grid_size = R(10)
    /\ current_transform[1].handle_type = "Center"
    /\ \E id \in DOMAIN ret.map :
           /\ DeltaTransform(Eng, current_transform[1], id, lastOp.point)
                = Mat(R(2), R(0), R(0), R(2), R(-5), R(-4))
           /\ ret.map[id] = Mat(R(2), R(0), R(0), R(2), R(-10), R(0))

\* C26: for each of the five constraint kinds and each boolean b, after
\* set_constraint(kind, b) the query is_constraint_enabled(kind) returns b,
\* and the enabled state of every other kind is unchanged.
C26_SetConstraintThenEnabled ==
    [][lastOp'.op = "set_constraint"
         => LET after == [constraints |-> constraints']
            IN  /\ is_constraint_enabled(after, lastOp'.constraint_type) = lastOp'.enabled
                /\ \A other \in ConstraintType \ {lastOp'.constraint_type} :
                       is_constraint_enabled(after, other) = is_constraint_enabled(Eng, other)]_vars

Corners == {"TopLeft", "TopRight", "BottomLeft", "BottomRight"}

Edges == {"TopCenter", "BottomCenter", "MiddleLeft", "MiddleRight"}

\* the values of field of the handles at places first..last of a list
FieldsOf(handles, field, first, last) == {handles[i][field] : i \in first..last}

\* C27: handle generation returns exactly 10 handles, one per handle kind, in
\* the fixed order of the four corners, then the four edge midpoints, then
\* the rotation handle, then the center handle.
C27_TenHandlesCornersFirst ==
    /\ lastOp.op = "calculate_handles"
         => /\ Len(ret.value) = 10
            /\ FieldsOf(ret.value, "handle_type", 1, 10) = HandleType
            /\ FieldsOf(ret.value, "handle_type", 1, 4) = Corners
            /\ FieldsOf(ret.value, "handle_type", 5, 8) = Edges
            /\ ret.value[9].handle_type = "Rotation"
            /\ ret.value[10].handle_type = "Center"
    /\ lastOp.op = "generate_selection_handles"
         => /\ Len(ret.value) = 10
            /\ Cardinality(FieldsOf(ret.value, "id", 1, 10)) = 10
            /\ FieldsOf(ret.value, "handle_type", 1, 4) = {"Corner"}
            /\ FieldsOf(ret.value, "handle_type", 5, 8) = {"Edge"}
            /\ ret.value[9].handle_type = "Rotation"
            /\ ret.value[10].handle_type = "Center"

\* point lies in the square of side size centred on position
InHitBox(position, size, point) ==
    /\ ~RLt(RDiv(size, R(2)), RAbs(RSub(point.x, position.x)))
    /\ ~RLt(RDiv(size, R(2)), RAbs(RSub(point.y, position.y)))

\* the places of the handles of a list whose hit box contains point
HitPlaces(handles, size, point) ==
    {i \in 1..Len(handles) : InHitBox(handles[i].position, size, point)}

\* the first of a non-empty set of places
FirstPlace(places) == CHOOSE i \in places : \A j \in places : i <= j

\* C28: a hit test returns the kind of the first handle, in the order of the
\* given handle list, whose hit box (a square of the handle size centred on
\* the handle position) contains the point, and returns nothing when no hit
\* box contains it.
C28_HitTestFirstMatchWins ==
    /\ lastOp.op = "hit_test_handle"
         => LET places == HitPlaces(lastOp.handles, HandleSize, lastOp.point)
            IN  ret.value = IF places = {} THEN None
                            ELSE Some(lastOp.handles[FirstPlace(places)].handle_type)
    /\ lastOp.op = "get_handle_at_point"
         => LET places == HitPlaces(lastOp.handles, RDiv(HandleSize, wasm.viewport.zoom),
                                    lastOp.point)
            IN  ret.value = IF places = {} THEN None
                            ELSE Some(lastOp.handles[FirstPlace(places)])

C28_Witness ==
    /\ lastOp.op = "hit_test_handle"
    /\ lastOp.handles[1].handle_type = "Rotation"
    /\ Cardinality(HitPlaces(lastOp.handles, HandleSize, lastOp.point)) > 2
    /\ lastOp.point = lastOp.handles[3].position
    /\ lastOp.handles[3].handle_type = "BottomRight"
    /\ ret.value = Some("Center")

\* no two hit boxes of the handles of a list share a point
HitBoxesApart(handles, size) ==
    \A i, j \in 1..Len(handles) :
        i # j => \/ RLt(size, RAbs(RSub(handles[i].position.x, handles[j].position.x)))
                 \/ RLt(size, RAbs(RSub(handles[i].position.y, handles[j].position.y)))

\* C29: for handles generated from bounds large enough that no two hit boxes
\* overlap, a hit test of a point exactly on the position of a corner handle
\* reports that corner, never an edge handle or any other handle.
C29_CornerPositionHitsCorner ==
    (lastOp.op = "hit_test_handle" /\ HitBoxesApart(lastOp.handles, HandleSize))
      => \A i \in 1..Len(lastOp.handles) :
             (lastOp.handles[i].handle_type \in Corners
              /\ lastOp.point = lastOp.handles[i].position)
               => ret.value = Some(lastOp.handles[i].handle_type)

C29_Witness ==
    /\ lastOp.op = "hit_test_handle"
    /\ HitBoxesApart(lastOp.handles, HandleSize)
    /\ lastOp.handles[1].handle_type = "TopLeft"
    /\ lastOp.point = PtI(30, 70)
    /\ lastOp.handles[8].position = PtI(30, 70)
    /\ ret.value = Some("BottomRight")

\* the handle on the other side of the selection
OppositeHandle(handle_type) ==
    CASE handle_type = "TopLeft" -> "BottomRight"
      [] handle_type = "BottomRight" -> "TopLeft"
      [] handle_type = "TopRight" -> "BottomLeft"
      [] handle_type = "BottomLeft" -> "TopRight"
      [] handle_type = "TopCenter" -> "BottomCenter"
      [] handle_type = "BottomCenter" -> "TopCenter"
      [] handle_type = "MiddleLeft" -> "MiddleRight"
      [] handle_type = "MiddleRight" -> "MiddleLeft"
      [] OTHER -> handle_type

\* the cursors a table gives to the handles of a set
CursorsOf(table, handle_types) == {table[h] : h \in handle_types}

\* in a table of cursors opposite handles share a cursor: the corners have
\* two diagonal cursors, the edges two axis cursors, the rotation handle and
\* the center handle one each, the latter "move"
SharedCursorTable(table) ==
    /\ \A h \in DOMAIN table : table[h] = table[OppositeHandle(h)]
    /\ Cardinality(CursorsOf(table, Corners)) = 2
    /\ Cardinality(CursorsOf(table, Edges)) = 2
    /\ CursorsOf(table, Corners) \cap CursorsOf(table, Edges) = {}
    /\ table["Rotation"] \notin CursorsOf(table, Corners \cup Edges \cup {"Center"})
    /\ table["Center"] = "move"
    /\ table["Center"] \notin CursorsOf(table, Corners \cup Edges)

\* the handle kind of transform.rs that a handle id of engine.rs stands for
KindOfId(id) ==
    CASE id = "nw" -> "TopLeft" [] id = "ne" -> "TopRight"
      [] id = "sw" -> "BottomLeft" [] id = "se" -> "BottomRight"
      [] id = "n" -> "TopCenter" [] id = "s" -> "BottomCenter"
      [] id = "w" -> "MiddleLeft" [] id = "e" -> "MiddleRight"
      [] id = "rotation" -> "Rotation" [] id = "center" -> "Center"

\* C30: the cursor lookup is a fixed table in which diagonally opposite
\* corners share one diagonal-resize cursor (top-left with bottom-right,
\* top-right with bottom-left), opposite edges share one axis-resize cursor,
\* the rotation handle has a rotate cursor and the center handle the move
\* cursor; the cursors of generated handles follow the same table.
C30_OppositeHandlesShareCursor ==
    /\ lastOp.op = "cursor_for_handle"
         => /\ SharedCursorTable([h \in HandleType |-> cursor_for_handle(Eng, h)])
            /\ ret.value = cursor_for_handle(TransformEngineNew, lastOp.handle_type)
    /\ lastOp.op = "generate_selection_handles"
         => SharedCursorTable([h \in HandleType |->
                LET i == CHOOSE i \in 1..Len(ret.value) : KindOfId(ret.value[i].id) = h
                IN  ret.value[i].cursor])

\* the coordinate of bounding box b that alignment brings to the target
AlignedCoordinate(b, alignment) ==
    CASE alignment = "left" -> b.x
      [] alignment = "center" -> RAdd(b.x, RDiv(b.width, R(2)))
      [] alignment = "right" -> RAdd(b.x, b.width)
      [] alignment = "top" -> b.y
      [] alignment = "middle" -> RAdd(b.y, RDiv(b.height, R(2)))
      [] alignment = "bottom" -> RAdd(b.y, b.height)

\* the target of alignment for elements: taken from their combined bounds
AlignTarget(elements, alignment) ==
    LET boxes == {elements[i].bounding_box : i \in 1..Len(elements)}
        min_x == RMinSet({b.x : b \in boxes})
        max_x == RMaxSet({RAdd(b.x, b.width) : b \in boxes})
        min_y == RMinSet({b.y : b \in boxes})
        max_y == RMaxSet({RAdd(b.y, b.height) : b \in boxes})
    IN  CASE alignment = "left" -> min_x
          [] alignment = "center" -> RDiv(RAdd(min_x, max_x), R(2))
          [] alignment = "right" -> max_x
          [] alignment = "top" -> min_y
          [] alignment = "middle" -> RDiv(RAdd(min_y, max_y), R(2))
          [] alignment = "bottom" -> max_y

\* bounding box after has the position and the extent of before on the axis
\* alignment does not move
OrthogonalAxisKept(before, after, alignment) ==
    IF alignment \in {"left", "center", "right"}
    THEN after.y = before.y /\ after.height = before.height
    ELSE after.x = before.x /\ after.width = before.width

\* the last call was align_elements with one of the six modes on two or more
\* elements
AlignedSeveral ==
    /\ lastOp.op = "align_elements"
    /\ lastOp.alignment \in AlignmentModes
    /\ Len(lastOp.elements) >= 2

\* C31: for two or more elements with any transforms and each of the six
\* modes, align_elements returns elements whose bounding boxes all have the
\* aligned edge or centre at the target taken from the combined bounds of the
\* given elements, and whose position and extent on the other axis are those
\* of the given elements.
C31_AlignedAtTarget ==
    AlignedSeveral
      => /\ Len(ret.value) = Len(lastOp.elements)
         /\ \A i \in 1..Len(lastOp.elements) :
                /\ AlignedCoordinate(ret.value[i].bounding_box, lastOp.alignment)
                     = AlignTarget(lastOp.elements, lastOp.alignment)
                /\ OrthogonalAxisKept(lastOp.elements[i].bounding_box,
                                      ret.value[i].bounding_box, lastOp.alignment)

\* C32: align_elements called with fewer than two elements returns the given
\* elements unchanged, transforms and bounding boxes alike, for every mode,
\* and the call never changes the state of the engine.
C32_FewerThanTwoUnchanged ==
    [][(lastOp'.op = "align_elements" /\ Len(lastOp'.elements) < 2)
         => /\ ret'.value = lastOp'.elements
            /\ wasm' = wasm
            /\ UNCHANGED <<engineVars, wasmRet, wasmOp, wasmBefore>>]_vars

C32_Witness ==
    /\ lastOp.op = "align_elements"
    /\ lastOp.elements = <<ElementT>>
    /\ lastOp.alignment = "left"
    /\ ret.value = <<ElementT>>
    /\ ElementT.transform # TransformIdentity

\* the last call was snap_to_grid with the grid and its snapping both enabled
SnappedToGrid ==
    /\ lastOp.op = "snap_to_grid"
    /\ wasm.grid.enabled
    /\ wasm.grid.snap

\* C33: snap_to_grid returns the point unchanged unless the grid and its
\* snapping are both enabled; when both are enabled it returns the point
\* whose x and y are each the nearest multiple of the grid size, and snapping
\* a point that snap_to_grid returned gives that point again.
C33_SnapToNearestMultiple ==
    lastOp.op = "snap_to_grid"
      => IF wasm.grid.enabled /\ wasm.grid.snap
         THEN /\ NearestMultiple(ret.value.x, lastOp.point.x, wasm.grid.size)
              /\ NearestMultiple(ret.value.y, lastOp.point.y, wasm.grid.size)
              /\ lastOp.again => ret.value = lastOp.point
         ELSE ret.value = lastOp.point

\* the corners of bounding box b
CornersOf(b) ==
    {Pt(b.x, b.y), Pt(RAdd(b.x, b.width), b.y),
     Pt(RAdd(b.x, b.width), RAdd(b.y, b.height)), Pt(b.x, RAdd(b.y, b.height))}

\* box is the smallest axis-aligned box that contains points: none of them is
\* outside it and each of its four sides passes through one of them
SmallestBoxAround(box, points) ==
    /\ \A p \in points :
           /\ ~RLt(p.x, box.x)
           /\ ~RLt(RAdd(box.x, box.width), p.x)
           /\ ~RLt(p.y, box.y)
           /\ ~RLt(RAdd(box.y, box.height), p.y)
    /\ \E p \in points : p.x = box.x
    /\ \E p \in points : p.x = RAdd(box.x, box.width)
    /\ \E p \in points : p.y = box.y
    /\ \E p \in points : p.y = RAdd(box.y, box.height)

\* the last call passed its elements through transform_element
ElementsTransformed ==
    \/ wasmOp.op = "scale_element"
    \/ wasmOp.op = "update_transform" /\ wasm.current_action # None

\* C35: transform_element returns an element whose bounding box is the
\* smallest axis-aligned box containing the four corners of the given
\* bounding box mapped through the element's new transform; its width and
\* height are never negative, negative scale factors included.
C35_BoundsAroundMappedCorners ==
    ElementsTransformed
      => \A i \in 1..Len(wasmOp.elements) :
             LET given == wasmOp.elements[i]
                 result == wasmRet.elements[i]
                 mapped == {transform_point(result.transform, corner) :
                               corner \in CornersOf(given.bounding_box)}
             IN  /\ SmallestBoxAround(result.bounding_box, mapped)
                 /\ ~RLt(result.bounding_box.width, R(0))
                 /\ ~RLt(result.bounding_box.height, R(0))

C35_Witness ==
    /\ wasmOp.op = "scale_element"
    /\ RLt(wasmOp.scale.x, R(0))
    /\ wasmOp.elements = <<ElementI>>
    /\ RLt(wasmRet.elements[1].transform.scale_x, R(0))
    /\ wasmRet.elements[1].bounding_box.width = R(8)
    /\ wasmRet.elements[1].bounding_box.height = R(24)

\* C38: align_elements is idempotent: applied with the same mode to what it
\* returned, it returns elements with the same transforms and bounding boxes.
C38_AlignIdempotent ==
    (lastOp.op = "align_elements" /\ lastOp.again) => ret.value = lastOp.elements

\* the positions of the guides of this orientation nearer to coordinate than
\* threshold
GuidesWithin(guides, orientation, coordinate, threshold) ==
    {guides[i].position :
        i \in {j \in 1..Len(guides) :
                  /\ guides[j].orientation = orientation
                  /\ RLt(RAbs(RSub(coordinate, guides[j].position)), threshold)}}

\* the values among those of the candidate bounds nearer to coordinate than
\* threshold: minimum, maximum and centre on the x axis, or on the y axis
ObjectValuesWithin(element_bounds, axis, coordinate, threshold) ==
    LET values ==
            UNION {IF axis = "x"
                   THEN {element_bounds[i].min.x, element_bounds[i].max.x,
                         Half(element_bounds[i].min.x, element_bounds[i].max.x)}
                   ELSE {element_bounds[i].min.y, element_bounds[i].max.y,
                         Half(element_bounds[i].min.y, element_bounds[i].max.y)} :
                   i \in 1..Len(element_bounds)}
    IN  {v \in values : RLt(RAbs(RSub(coordinate, v)), threshold)}

\* snap-to-object is enabled and a value of a candidate is near the point
ObjectSnapApplies(self, point, element_bounds) ==
    /\ is_constraint_enabled(self, "SnapToObject")
    /\ \E axis \in {"x", "y"}, coordinate \in {point.x, point.y} :
           ObjectValuesWithin(element_bounds, axis, coordinate, self.snap_threshold) # {}

\* result is coordinate clamped to one of the positions within, or
\* coordinate itself when there is none
ClampedTo(result, coordinate, within) ==
    IF within = {} THEN result = coordinate ELSE result \in within

\* C34: with object snap not applying, snap_point_to_guides clamps the
\* point's y to the position of a horizontal guide and its x to the position
\* of a vertical guide whenever that coordinate is nearer to the guide than
\* snap_threshold, leaves a coordinate unchanged when no guide of that axis
\* is that near, and changes neither the guide store nor any other field of
\* the engine.
C34_ClampsToGuidesOnly ==
    [][(/\ lastOp'.op = "snap_point_to_guides"
        /\ ~ObjectSnapApplies(Eng, lastOp'.point, lastOp'.element_bounds))
         => /\ ClampedTo(ret'.value.y, lastOp'.point.y,
                         GuidesWithin(active_guides, "Horizontal", lastOp'.point.y,
                                      snap_threshold))
            /\ ClampedTo(ret'.value.x, lastOp'.point.x,
                         GuidesWithin(active_guides, "Vertical", lastOp'.point.x,
                                      snap_threshold))
            /\ UNCHANGED engineVars]_vars

C34_Witness ==
    /\ lastOp.op = "snap_point_to_guides"
    /\ lastOp.point = PtI(6, 18)
    /\ Len(active_guides) = 2
    /\ active_guides[1].orientation = "Vertical"
    /\ active_guides[1].position = R(20)
    /\ active_guides[2].orientation = "Horizontal"
    /\ active_guides[2].position = R(20)
    /\ snap_threshold = R(5)
    /\ ret.value = PtI(6, 20)

\* C36: in every session the maps returned by update_transform,
\* finish_transform and cancel_transform all have the same key set, the set
\* of the element ids passed to start_transform, also when the snapshot map
\* supplied at the start holds further ids and whether or not an update was
\* made before the finish.
C36_ReturnedKeysAreSelectedIds ==
    (/\ startArgs # None
     /\ lastOp.op \in {"update_transform", "finish_transform", "cancel_transform"}
     /\ ret.tag = "Some")
      => DOMAIN ret.map = SeqRange(startArgs[1].element_ids)

\* C37: after any sequence of add_alignment_guide, remove_alignment_guide and
\* clear_alignment_guides calls no two guides of the store have the same id.
C37_GuideIdsUnique ==
    \A i, j \in 1..Len(active_guides) :
        i # j => active_guides[i].id # active_guides[j].id

\* the bounds whose handles the session in progress was started on: the
\* combined bounds of the selected elements
DraggedBounds ==
    calculate_combined_bounds([id \in SeqRange(startArgs[1].element_ids)
                                  |-> startArgs[1].element_bounds[id]])[1]

\* C39: when an edge-handle drag is started with the pointer exactly on that
\* handle's position, the midpoint of the edge, and lock-scale is disabled,
\* an update with the pointer moved along the axis of the handle scales every
\* element on that axis by (current - pivot) / (start - pivot).
C39_EdgeFollowsPointer ==
    (/\ Updated
     /\ nUpd > 0
     /\ startArgs[1].handle_type \in Edges
     /\ startArgs[1].start_point = HandlePosition(startArgs[1].handle_type, DraggedBounds)
     /\ ~is_constraint_enabled(Eng, "LockScale")
     /\ IF startArgs[1].handle_type \in {"MiddleLeft", "MiddleRight"}
        THEN lastOp.point.y = startArgs[1].start_point.y
        ELSE lastOp.point.x = startArgs[1].start_point.x)
      => \A id \in DOMAIN ret.map :
             LET session == current_transform[1]
                 applied == AppliedScale(ret.map[id], session.initial_states[id].transform)
             IN  IF session.handle_type \in {"MiddleLeft", "MiddleRight"}
                 THEN applied.x = RawScale(session).x
                 ELSE applied.y = RawScale(session).y

\* C40: with snap-to-object enabled by set_constraint, snap_point_to_guides
\* snaps each axis only to values of that axis: the returned x is the given
\* x, the position of a vertical guide, or the minimum, maximum or centre x
\* of a candidate bounds near the given x, the returned y likewise with
\* horizontal guides and the y values of the candidates, and a match with a
\* candidate overrides a match with a guide on the same axis.
C40_ObjectSnapPerAxis ==
    [][(/\ lastOp.op = "set_constraint"
        /\ lastOp.constraint_type = "SnapToObject"
        /\ lastOp.enabled
        /\ lastOp'.op = "snap_point_to_guides")
         => LET point == lastOp'.point
                object_x == ObjectValuesWithin(lastOp'.element_bounds, "x", point.x,
                                               snap_threshold)
                object_y == ObjectValuesWithin(lastOp'.element_bounds, "y", point.y,
                                               snap_threshold)
                guide_x == GuidesWithin(active_guides, "Vertical", point.x, snap_threshold)
                guide_y == GuidesWithin(active_guides, "Horizontal", point.y, snap_threshold)
            IN  /\ ret'.value.x \in {point.x} \cup guide_x \cup object_x
                /\ ret'.value.y \in {point.y} \cup guide_y \cup object_y
                /\ object_x # {} => ret'.value.x \in object_x
                /\ object_y # {} => ret'.value.y \in object_y]_vars

====
